---- MODULE Spec2Model ----
(***************************************************************************)
(* A model of the zzz coordination plugin: the message codec (envelope    *)
(* and legacy wire formats), the envelope predicates, the matching of pane *)
(* titles to roles, the role registry and message router, and the file    *)
(* store with its retry wrapper, as state machines translated from         *)
(* src/src.                                                                *)
(***************************************************************************)
EXTENDS Integers, Sequences, FiniteSets, TLC

VARIABLES
    pc,             \* codec: position of the sender/receiver pair ("idle", "sent", "parsed")
    origin,         \* codec: what the sender serialized (an envelope, a bare message, or raw text)
    payload,        \* codec: the text handed to parse_incoming_message
    parsed,         \* codec: the Result parse_incoming_message returned
    pane_registry,  \* router: MessageRouter.pane_registry, PaneRole -> PaneId or NoPane
    sent_messages,  \* transport: the write_chars_to_pane_id calls recorded since the last clear()
    last,           \* router: the call that has just returned, with its arguments and its
                    \* result, until the caller goes on ([op |-> "none"] between calls)
    pane_name,      \* matching: the title handed to match_pane_name_to_role
    matched,        \* matching: what communication/router.rs answered for it
    matched_legacy, \* matching: what the older communication.rs answered for it
    built,          \* envelope: the MessageEnvelope a constructor built
    pane_title,     \* envelope: the title asked about
    answer,         \* envelope: what is_targeted_to and is_broadcast answered
    files,          \* store: the regular files of the directory, path -> content
    fs_call,        \* store: the FileSystem call in progress or just returned
    fs_pc,          \* store: where that call stands ("idle", "loop", a step of the
                    \* operation, "returned")
    attempt,        \* store: with_retry's attempt counter
    invocations,    \* store: how often with_retry has invoked the operation in this call
    elapsed,        \* store: start_time.elapsed() in ms
    slept,          \* store: the sleeps of this call, in ms
    fs_result,      \* store: what the call returned
    log_file,       \* writers: the file the threads append to
    writers,        \* writers: each thread's place in its loop of appends, and the
                    \* results it has got
    derived,        \* paths: the paths derived for the last two task ids asked for
    state_last,     \* plugin state: the routing method of State that has just returned,
                    \* with what the router returned to it and what it returned
    mirrored,       \* plugin state: the entries log_coordinator has appended to the
                    \* coordinator log since the caller last looked
    directory,      \* concurrent writes: the names of the directory, path -> file
    inodes,         \* concurrent writes: the content of every file made so far, named
                    \* or not
    atomics,        \* concurrent writes: each caller of write_file_atomic, its
                    \* arguments, its open file and where it stands
    state,          \* plugin: the fields of State the handlers read and write
                    \* (message_router is pane_registry, communication writes
                    \* piped_messages)
    piped_messages, \* transport: the pipe_message_to_plugin calls recorded since the
                    \* last clear()
    plugin_last     \* plugin: the handler that has just returned, with its event

codecVars == <<pc, origin, payload, parsed>>
routerVars == <<pane_registry, sent_messages, last>>
matchVars == <<pane_name, matched, matched_legacy>>
envelopeVars == <<built, pane_title, answer>>
fsVars == <<files, fs_call, fs_pc, attempt, invocations, elapsed, slept, fs_result>>
writerVars == <<log_file, writers>>
pathVars == <<derived>>
stateVars == <<state_last, mirrored>>
atomicVars == <<directory, inodes, atomics>>
pluginVars == <<state, piped_messages, plugin_last>>
vars == <<pc, origin, payload, parsed, pane_registry, sent_messages, last,
          pane_name, matched, matched_legacy, built, pane_title, answer,
          files, fs_call, fs_pc, attempt, invocations, elapsed, slept, fs_result,
          log_file, writers, derived, state_last, mirrored,
          directory, inodes, atomics, state, piped_messages, plugin_last>>

\* What the operations of one part leave alone.
exceptCodec == <<routerVars, matchVars, envelopeVars, fsVars, writerVars, pathVars, stateVars, atomicVars, pluginVars>>
exceptRouter == <<codecVars, matchVars, envelopeVars, fsVars, writerVars, pathVars, stateVars, atomicVars, pluginVars>>
exceptMatch == <<codecVars, routerVars, envelopeVars, fsVars, writerVars, pathVars, stateVars, atomicVars, pluginVars>>
exceptEnvelope == <<codecVars, routerVars, matchVars, fsVars, writerVars, pathVars, stateVars, atomicVars, pluginVars>>
exceptFs == <<codecVars, routerVars, matchVars, envelopeVars, writerVars, pathVars, stateVars, atomicVars, pluginVars>>
exceptWriter == <<codecVars, routerVars, matchVars, envelopeVars, fsVars, pathVars, stateVars, atomicVars, pluginVars>>
exceptPath == <<codecVars, routerVars, matchVars, envelopeVars, fsVars, writerVars, stateVars, atomicVars, pluginVars>>
exceptState == <<codecVars, matchVars, envelopeVars, fsVars, writerVars, pathVars, atomicVars, pluginVars>>
exceptAtomic == <<codecVars, routerVars, matchVars, envelopeVars, fsVars, writerVars,
                 pathVars, stateVars, pluginVars>>
exceptPlugin == <<codecVars, matchVars, envelopeVars, fsVars, writerVars, pathVars,
                 atomicVars>>

(***************************************************************************)
(* Message catalog                                                         *)
(***************************************************************************)

PaneRole == {"Overseer", "Commander", "TaskList", "Review", "Editor"}

WorkflowPhase ==
    {"Initializing", "PlanningInProgress", "PlanReady", "ImplementationInProgress",
     "ImplementationComplete", "ReviewInProgress", "ReviewComplete", "Finished"}

\* The field list of each CoordinationMessage variant, in declaration order,
\* with the Rust type of each field.  Unit variants have no fields.
VariantFields(variant) ==
    CASE variant = "StartPlanning" ->
            <<[name |-> "task_id", ty |-> "u32"],
              [name |-> "task_description", ty |-> "String"]>>
      [] variant = "PlanReady" -> <<[name |-> "todo_file_path", ty |-> "String"]>>
      [] variant = "TaskCompleted" -> <<[name |-> "task_id", ty |-> "String"]>>
      [] variant = "ReviewComplete" -> <<[name |-> "review_file_path", ty |-> "String"]>>
      [] variant = "PhaseTransition" ->
            <<[name |-> "from", ty |-> "WorkflowPhase"],
              [name |-> "to", ty |-> "WorkflowPhase"]>>
      [] variant = "FileChanged" ->
            <<[name |-> "file_path", ty |-> "String"],
              [name |-> "event_type", ty |-> "String"]>>
      [] OTHER -> <<>>

CoordinationVariants ==
    {"StartPlanning", "PlanReady", "StartImplementation", "TaskCompleted",
     "AllTasksComplete", "StartReview", "ReviewComplete", "PhaseTransition",
     "FileChanged"}

\* The field list of MessageEnvelope, in declaration order.
EnvelopeFields ==
    <<[name |-> "target_pane", ty |-> "Option<String>"],
      [name |-> "coordination_message", ty |-> "CoordinationMessage"],
      [name |-> "sender", ty |-> "String"],
      [name |-> "timestamp", ty |-> "u64"]>>

None == [some |-> FALSE]
Some(x) == [some |-> TRUE, v |-> x]

(***************************************************************************)
(* Input sets of the codec                                                 *)
(***************************************************************************)

Strings == {"", "test-pane", "overseer"}
TaskIds == {0, 123}
Timestamps == {0, 1700000000}
Phases == {"Initializing", "PlanningInProgress", "Finished"}

Messages ==
    [variant : {"StartPlanning"}, task_id : TaskIds, task_description : {"", "Test task"}]
    \cup [variant : {"PlanReady"}, todo_file_path : {"/path/to/todo.md"}]
    \cup [variant : {"StartImplementation", "AllTasksComplete", "StartReview"}]
    \cup [variant : {"TaskCompleted"}, task_id : {"task-123"}]
    \cup [variant : {"ReviewComplete"}, review_file_path : {"/path/to/review.md"}]
    \cup [variant : {"PhaseTransition"}, from : Phases, to : Phases]
    \cup [variant : {"FileChanged"}, file_path : {"/some/file.rs"}, event_type : {"modified"}]

Envelopes ==
    [target_pane : {None} \cup {Some(s) : s \in Strings},
     coordination_message : Messages,
     sender : {"", "test-sender"},
     timestamp : Timestamps]

(***************************************************************************)
(* JSON text: a sequence of tokens                                         *)
(***************************************************************************)

Punct(c) == [k |-> "punct", c |-> c]
Str(s) == [k |-> "string", s |-> s]
Num(n) == [k |-> "number", n |-> n]
Lit(c) == [k |-> "lit", c |-> c]
Ws == [k |-> "ws"]
Bad(c) == [k |-> "bad", c |-> c]

IsPunct(tk, c) == tk.k = "punct" /\ tk.c = c

\* JSON values
JNull == [t |-> "null"]
JBool(b) == [t |-> "bool", b |-> b]
JStr(s) == [t |-> "str", s |-> s]
JNum(n) == [t |-> "num", n |-> n]
JArr(elems) == [t |-> "arr", elems |-> elems]
JObj(members) == [t |-> "obj", members |-> members]

Ok(x) == [ok |-> TRUE, v |-> x]
Err(code, what) == [ok |-> FALSE, err |-> [code |-> code, what |-> what]]

(***************************************************************************)
(* serde_json::to_string of the derived Serialize implementations         *)
(***************************************************************************)

RECURSIVE EncodeValue(_, _), EncodeStruct(_, _, _)

\* An externally tagged enum value: a unit variant is its name as a string,
\* a struct variant is {"Name":{fields}}.
to_string_message(m) ==
    IF VariantFields(m.variant) = <<>>
    THEN <<Str(m.variant)>>
    ELSE <<Punct("{"), Str(m.variant), Punct(":")>>
         \o EncodeStruct(VariantFields(m.variant), m, 1)
         \o <<Punct("}")>>

EncodeValue(ty, x) ==
    CASE ty = "String" -> <<Str(x)>>
      [] ty \in {"u32", "u64"} -> <<Num(x)>>
      [] ty = "WorkflowPhase" -> <<Str(x)>>
      [] ty = "Option<String>" -> IF x.some THEN <<Str(x.v)>> ELSE <<Lit("null")>>
      [] ty = "CoordinationMessage" -> to_string_message(x)

\* The fields i.. of a struct, in declaration order, comma separated,
\* between braces.
EncodeStruct(fields, r, i) ==
    (IF i = 1 THEN <<Punct("{")>> ELSE <<Punct(",")>>)
    \o <<Str(fields[i].name), Punct(":")>>
    \o EncodeValue(fields[i].ty, r[fields[i].name])
    \o (IF i = Len(fields) THEN <<Punct("}")>> ELSE EncodeStruct(fields, r, i + 1))

\* Mutant: the target is written under the key "target".
to_string_envelope_renamed(e) ==
    LET text == EncodeStruct(EnvelopeFields, e, 1) IN
    [i \in 1..Len(text) |->
        IF text[i].k = "string" /\ text[i].s = "target_pane" /\ i = 2
        THEN Str("target") ELSE text[i]]

to_string_envelope(e) == EncodeStruct(EnvelopeFields, e, 1)

(***************************************************************************)
(* serde_json::from_str: the JSON grammar                                  *)
(***************************************************************************)

RECURSIVE SkipWs(_, _)
SkipWs(toks, i) ==
    IF i <= Len(toks) /\ toks[i].k = "ws" THEN SkipWs(toks, i + 1) ELSE i

Parsed(v, next) == [ok |-> TRUE, v |-> v, next |-> next]

RECURSIVE ParseValue(_, _), ParseElems(_, _, _, _), ParseMembers(_, _, _, _)

ParseValue(toks, i0) ==
    LET i == SkipWs(toks, i0) IN
    IF i > Len(toks) THEN Err("EofWhileParsingValue", "")
    ELSE LET tk == toks[i] IN
         CASE tk.k = "lit" ->
                Parsed(IF tk.c = "null" THEN JNull ELSE JBool(tk.c = "true"), i + 1)
           [] tk.k = "string" -> Parsed(JStr(tk.s), i + 1)
           [] tk.k = "number" -> Parsed(JNum(tk.n), i + 1)
           [] IsPunct(tk, "[") -> ParseElems(toks, i + 1, <<>>, "first")
           [] IsPunct(tk, "{") -> ParseMembers(toks, i + 1, <<>>, "first")
           [] tk.k = "bad" -> Err("ExpectedSomeIdent", "")
           [] OTHER -> Err("ExpectedSomeValue", "")

\* expect: "first" right after '[', "sep" after an element, "value" after ','
ParseElems(toks, i0, acc, expect) ==
    LET i == SkipWs(toks, i0) IN
    IF i > Len(toks) THEN Err("EofWhileParsingList", "")
    ELSE IF IsPunct(toks[i], "]")
    THEN IF expect = "value" THEN Err("TrailingComma", "")
         ELSE Parsed(JArr(acc), i + 1)
    ELSE IF expect = "sep"
    THEN IF IsPunct(toks[i], ",") THEN ParseElems(toks, i + 1, acc, "value")
         ELSE Err("ExpectedListCommaOrEnd", "")
    ELSE LET r == ParseValue(toks, i) IN
         IF r.ok THEN ParseElems(toks, r.next, Append(acc, r.v), "sep") ELSE r

\* expect: "first" right after '{', "sep" after a member, "key" after ','
ParseMembers(toks, i0, acc, expect) ==
    LET i == SkipWs(toks, i0) IN
    IF i > Len(toks) THEN Err("EofWhileParsingObject", "")
    ELSE IF IsPunct(toks[i], "}")
    THEN IF expect = "key" THEN Err("TrailingComma", "")
         ELSE Parsed(JObj(acc), i + 1)
    ELSE IF expect = "sep"
    THEN IF IsPunct(toks[i], ",") THEN ParseMembers(toks, i + 1, acc, "key")
         ELSE Err("ExpectedObjectCommaOrEnd", "")
    ELSE IF toks[i].k # "string" THEN Err("KeyMustBeAString", "")
    ELSE LET c == SkipWs(toks, i + 1) IN
         IF c > Len(toks) THEN Err("EofWhileParsingObject", "")
         ELSE IF ~IsPunct(toks[c], ":") THEN Err("ExpectedColon", "")
         ELSE LET r == ParseValue(toks, c + 1) IN
              IF r.ok
              THEN ParseMembers(toks, r.next,
                                Append(acc, [key |-> toks[i].s, val |-> r.v]), "sep")
              ELSE r

\* One JSON value and nothing but white space after it.
ParseJson(toks) ==
    LET r == ParseValue(toks, 1) IN
    IF ~r.ok THEN r
    ELSE IF SkipWs(toks, r.next) <= Len(toks) THEN Err("TrailingCharacters", "")
    ELSE Ok(r.v)

(***************************************************************************)
(* The derived Deserialize implementations, applied to a JSON value        *)
(***************************************************************************)

EnumVariants(ty) ==
    IF ty = "WorkflowPhase" THEN WorkflowPhase ELSE CoordinationVariants

EnumFields(ty, variant) ==
    IF ty = "WorkflowPhase" THEN <<>> ELSE VariantFields(variant)

\* The value of a decoded enum: a WorkflowPhase is its name, a
\* CoordinationMessage is a record of its variant and fields.
EnumValue(ty, variant, fieldValues) ==
    IF ty = "WorkflowPhase" THEN variant
    ELSE ("variant" :> variant) @@ fieldValues

NoFields == [n \in {} |-> 0]

FieldNames(fields) == {fields[i].name : i \in 1..Len(fields)}

RECURSIVE DecodeValue(_, _), DecodeEnum(_, _), DecodeStruct(_, _, _),
          VisitMap(_, _, _, _), VisitSeq(_, _, _, _), FillMissing(_, _, _)

DecodeValue(ty, v) ==
    CASE ty = "String" ->
            IF v.t = "str" THEN Ok(v.s) ELSE Err("invalid_type", "a string")
      [] ty \in {"u32", "u64"} ->
            IF v.t # "num" THEN Err("invalid_type", ty)
            ELSE IF v.n < 0 THEN Err("invalid_value", ty)
            ELSE Ok(v.n)
      [] ty = "Option<String>" ->
            IF v.t = "null" THEN Ok(None)
            ELSE IF v.t = "str" THEN Ok(Some(v.s))
            ELSE Err("invalid_type", "a string")
      [] ty \in {"WorkflowPhase", "CoordinationMessage"} -> DecodeEnum(ty, v)

\* An externally tagged enum: "Name" for a unit variant, or an object of
\* exactly one member {"Name": content}.
DecodeEnum(ty, v) ==
    IF v.t = "str"
    THEN IF v.s \notin EnumVariants(ty) THEN Err("unknown_variant", ty)
         ELSE IF EnumFields(ty, v.s) # <<>> THEN Err("invalid_type", "struct variant")
         ELSE Ok(EnumValue(ty, v.s, NoFields))
    ELSE IF v.t = "obj"
    THEN IF Len(v.members) = 0 THEN Err("ExpectedSomeValue", ty)
         ELSE LET variant == v.members[1].key
                  content == v.members[1].val
                  body == IF EnumFields(ty, variant) = <<>>
                          THEN IF content.t = "null" THEN Ok(NoFields)
                               ELSE Err("invalid_type", "unit variant")
                          ELSE DecodeStruct("struct variant",
                                            EnumFields(ty, variant), content)
              IN IF variant \notin EnumVariants(ty) THEN Err("unknown_variant", ty)
                 ELSE IF ~body.ok THEN body
                 ELSE IF Len(v.members) > 1 THEN Err("ExpectedObjectEnd", ty)
                 ELSE Ok(EnumValue(ty, variant, body.v))
    ELSE Err("ExpectedSomeValue", ty)

\* A struct is read from an object (fields by name, in any order, unknown
\* names ignored) or from an array (fields by position).
DecodeStruct(name, fields, v) ==
    IF v.t = "obj" THEN VisitMap(fields, v.members, 1, NoFields)
    ELSE IF v.t = "arr" THEN VisitSeq(fields, v.elems, 1, NoFields)
    ELSE Err("invalid_type", name)

FieldType(fields, key) ==
    LET i == CHOOSE j \in 1..Len(fields) : fields[j].name = key IN fields[i].ty

VisitMap(fields, members, i, acc) ==
    IF i > Len(members) THEN FillMissing(fields, acc, 1)
    ELSE LET key == members[i].key IN
         IF key \notin FieldNames(fields) THEN VisitMap(fields, members, i + 1, acc)
         ELSE IF key \in DOMAIN acc THEN Err("duplicate_field", key)
         ELSE LET r == DecodeValue(FieldType(fields, key), members[i].val) IN
              IF r.ok THEN VisitMap(fields, members, i + 1, acc @@ (key :> r.v))
              ELSE r

\* A field the object did not name: an Option field is None, any other
\* field is an error.
FillMissing(fields, acc, i) ==
    IF i > Len(fields) THEN Ok(acc)
    ELSE IF fields[i].name \in DOMAIN acc THEN FillMissing(fields, acc, i + 1)
    ELSE IF fields[i].ty = "Option<String>"
    THEN FillMissing(fields, acc @@ (fields[i].name :> None), i + 1)
    ELSE Err("missing_field", fields[i].name)

VisitSeq(fields, elems, i, acc) ==
    IF i > Len(fields)
    THEN IF Len(elems) > Len(fields) THEN Err("TrailingCharacters", "") ELSE Ok(acc)
    ELSE IF i > Len(elems) THEN Err("invalid_length", fields[i].name)
    ELSE LET r == DecodeValue(fields[i].ty, elems[i]) IN
         IF r.ok THEN VisitSeq(fields, elems, i + 1, acc @@ (fields[i].name :> r.v))
         ELSE r

from_str_envelope(text) ==
    LET j == ParseJson(text) IN
    IF j.ok THEN DecodeStruct("struct MessageEnvelope", EnvelopeFields, j.v) ELSE j

from_str_message(text) ==
    LET j == ParseJson(text) IN
    IF j.ok THEN DecodeValue("CoordinationMessage", j.v) ELSE j

(***************************************************************************)
(* Communication::parse_incoming_message                                   *)
(***************************************************************************)

ParsedEnvelope(e) == [ok |-> TRUE, kind |-> "Envelope", envelope |-> e]
ParsedLegacy(m) == [ok |-> TRUE, kind |-> "Legacy", message |-> m]
ParseError(err) == [ok |-> FALSE, err |-> err]

\* Mutant: the error of the legacy attempt is returned.
parse_incoming_message_legacy_error(text) ==
    LET envelope == from_str_envelope(text) IN
    IF envelope.ok THEN ParsedEnvelope(envelope.v)
    ELSE LET message == from_str_message(text) IN
         IF message.ok THEN ParsedLegacy(message.v)
         ELSE ParseError(message.err)

\* Mutant: no fallback to the legacy format.
parse_incoming_message_no_fallback(text) ==
    LET envelope == from_str_envelope(text) IN
    IF envelope.ok THEN ParsedEnvelope(envelope.v) ELSE ParseError(envelope.err)

parse_incoming_message(text) ==
    LET envelope == from_str_envelope(text) IN
    IF envelope.ok THEN ParsedEnvelope(envelope.v)
    ELSE LET message == from_str_message(text) IN
         IF message.ok THEN ParsedLegacy(message.v)
         ELSE ParseError(from_str_envelope(text).err)

(***************************************************************************)
(* Raw payloads an arbitrary sender may put on the wire                    *)
(***************************************************************************)

Array123 == <<Punct("["), Num(1), Punct(","), Num(2), Punct(","), Num(3), Punct("]")>>

\* "", "   \t\n  ", "not json", "null", "[1,2,3]", "{ invalid json structure"
TestRawTexts ==
    {<<>>,
     <<Ws, Ws>>,
     <<Bad("not"), Ws, Bad("json")>>,
     <<Lit("null")>>,
     Array123,
     <<Punct("{"), Ws, Bad("invalid"), Ws, Bad("json"), Ws, Bad("structure")>>}

Member(key, value) == <<Str(key), Punct(":")>> \o value

\* An object text from a sequence of member texts.
RECURSIVE ObjectText(_, _)
ObjectText(members, i) ==
    (IF i = 1 THEN <<Punct("{")>> ELSE <<>>)
    \o (IF i > Len(members) THEN <<Punct("}")>>
        ELSE (IF i > 1 THEN <<Punct(",")>> ELSE <<>>) \o members[i]
             \o ObjectText(members, i + 1))

\* Texts that are JSON but not what to_string writes: other member orders,
\* missing, unknown and repeated members, array forms, the object form of a
\* unit variant, wrong types, trailing text.
ShapedRawTexts ==
    LET target == Member("target_pane", <<Str("test-pane")>>)
        nullTarget == Member("target_pane", <<Lit("null")>>)
        message == Member("coordination_message", <<Str("StartReview")>>)
        sender == Member("sender", <<Str("test-sender")>>)
        time == Member("timestamp", <<Num(123)>>)
        extra == Member("version", Array123)
    IN {ObjectText(<<time, sender, message, target>>, 1),
        ObjectText(<<message, sender, time>>, 1),
        ObjectText(<<target, message, sender, time, extra>>, 1),
        ObjectText(<<target, message, sender, sender, time>>, 1),
        ObjectText(<<target, sender, time>>, 1),
        ObjectText(<<target, message, time>>, 1),
        ObjectText(<<nullTarget, message, sender>>, 1),
        ObjectText(<<target, message, sender, Member("timestamp", <<Num(-1)>>)>>, 1),
        ObjectText(<<target, message, sender, Member("timestamp", <<Str("123")>>)>>, 1),
        ObjectText(<<Member("target_pane", <<Num(7)>>), message, sender, time>>, 1),
        ObjectText(<<target, Member("coordination_message", <<Str("Unknown")>>),
                     sender, time>>, 1),
        ObjectText(<<nullTarget, message, sender, time>>, 1) \o <<Ws>>,
        ObjectText(<<nullTarget, message, sender, time>>, 1) \o <<Punct("}")>>,
        ObjectText(<<>>, 1),
        <<Punct("["), Lit("null"), Punct(","), Str("StartReview"), Punct(","),
          Str("test-sender"), Punct(","), Num(123), Punct("]")>>,
        <<Punct("["), Lit("null"), Punct(","), Str("StartReview"), Punct(","),
          Str("test-sender"), Punct("]")>>,
        <<Ws, Str("StartReview"), Ws>>,
        <<Str("StartPlanning")>>,
        <<Str("Unknown")>>,
        <<Num(123)>>,
        <<Lit("true")>>,
        ObjectText(<<Member("StartReview", <<Lit("null")>>)>>, 1),
        ObjectText(<<Member("StartReview", <<Num(0)>>)>>, 1),
        ObjectText(<<Member("StartReview", <<Lit("null")>>),
                     Member("AllTasksComplete", <<Lit("null")>>)>>, 1),
        ObjectText(<<Member("TaskCompleted",
                            <<Punct("["), Str("task-123"), Punct("]")>>)>>, 1),
        ObjectText(<<Member("TaskCompleted",
                            ObjectText(<<Member("task_id", <<Num(123)>>)>>, 1))>>, 1),
        ObjectText(<<Member("PhaseTransition",
                            ObjectText(<<Member("to", <<Str("Finished")>>),
                                         Member("from", <<Str("PlanReady")>>)>>, 1))>>, 1),
        ObjectText(<<Member("PhaseTransition",
                            ObjectText(<<Member("from", <<Str("PlanReady")>>)>>, 1))>>, 1)}

\* Written texts that lost their tail or one of their tokens on the way.
DamagedSources ==
    {to_string_envelope([target_pane |-> Some("test-pane"),
                         coordination_message |->
                             [variant |-> "TaskCompleted", task_id |-> "task-123"],
                         sender |-> "test-sender", timestamp |-> 123]),
     to_string_message([variant |-> "PhaseTransition",
                        from |-> "Initializing", to |-> "Finished"])}

DropToken(text, i) == SubSeq(text, 1, i - 1) \o SubSeq(text, i + 1, Len(text))

DamagedRawTexts ==
    UNION {{SubSeq(text, 1, n) : n \in 1..(Len(text) - 1)}
           \cup {DropToken(text, i) : i \in 1..Len(text)} : text \in DamagedSources}

RawTexts == TestRawTexts \cup ShapedRawTexts \cup DamagedRawTexts

(***************************************************************************)
(* The codec as a state machine: a sender serializes, the receiver parses  *)
(***************************************************************************)

NoOrigin == [kind |-> "none"]
NoText == <<>>
NotParsed == [ok |-> FALSE, err |-> [code |-> "not parsed", what |-> ""]]

CodecInit ==
    /\ pc = "idle"
    /\ origin = NoOrigin
    /\ payload = NoText
    /\ parsed = NotParsed

\* A sender serializes an envelope (send_pipe_message) and the text arrives.
SendEnvelope(e) ==
    /\ pc \in {"idle", "parsed"}
    /\ origin' = [kind |-> "envelope", envelope |-> e]
    /\ payload' = to_string_envelope(e)
    /\ parsed' = NotParsed
    /\ pc' = "sent"
    /\ UNCHANGED exceptCodec

\* An older sender serializes a bare message (route_message_to_role).
SendLegacy(m) ==
    /\ pc \in {"idle", "parsed"}
    /\ origin' = [kind |-> "legacy", message |-> m]
    /\ payload' = to_string_message(m)
    /\ parsed' = NotParsed
    /\ pc' = "sent"
    /\ UNCHANGED exceptCodec

\* Any other text arrives.
ReceiveRaw(text) ==
    /\ pc \in {"idle", "parsed"}
    /\ origin' = [kind |-> "raw"]
    /\ payload' = text
    /\ parsed' = NotParsed
    /\ pc' = "sent"
    /\ UNCHANGED exceptCodec

\* The receiver hands the text to parse_incoming_message.
ParseIncoming ==
    /\ pc = "sent"
    /\ parsed' = parse_incoming_message(payload)
    /\ pc' = "parsed"
    /\ UNCHANGED <<origin, payload>>
    /\ UNCHANGED exceptCodec

CodecNext ==
    \/ \E e \in Envelopes : SendEnvelope(e)
    \/ \E m \in Messages : SendLegacy(m)
    \/ \E text \in RawTexts : ReceiveRaw(text)
    \/ ParseIncoming

(***************************************************************************)
(* Pane titles: strings as sequences of characters                         *)
(***************************************************************************)

\* "Overseer AI"
OverseerAI ==
    <<"O", "v", "e", "r", "s", "e", "e", "r", " ", "A", "I">>
\* "Commander Term"
CommanderTerm ==
    <<"C", "o", "m", "m", "a", "n", "d", "e", "r", " ", "T", "e", "r", "m">>
\* "Task List Mgr"
TaskListMgr ==
    <<"T", "a", "s", "k", " ", "L", "i", "s", "t", " ", "M", "g", "r">>
\* "Code Review"
CodeReview ==
    <<"C", "o", "d", "e", " ", "R", "e", "v", "i", "e", "w">>
\* "Main Editor"
MainEditor ==
    <<"M", "a", "i", "n", " ", "E", "d", "i", "t", "o", "r">>
\* "Random Pane"
RandomPane ==
    <<"R", "a", "n", "d", "o", "m", " ", "P", "a", "n", "e">>

KwOverseer == <<"o", "v", "e", "r", "s", "e", "e", "r">>
KwCommander == <<"c", "o", "m", "m", "a", "n", "d", "e", "r">>
KwTaskList == <<"t", "a", "s", "k", " ", "l", "i", "s", "t">>
KwReview == <<"r", "e", "v", "i", "e", "w">>
KwEditor == <<"e", "d", "i", "t", "o", "r">>

UpperCase == <<"A", "B", "C", "D", "E", "F", "G", "H", "I", "J", "K", "L", "M", "N", "O", "P", "Q", "R", "S", "T", "U", "V", "W", "X", "Y", "Z">>
LowerCase == <<"a", "b", "c", "d", "e", "f", "g", "h", "i", "j", "k", "l", "m", "n", "o", "p", "q", "r", "s", "t", "u", "v", "w", "x", "y", "z">>

\* str::to_lowercase on the ASCII letters the titles are written in
to_lowercase(name) ==
    [i \in 1..Len(name) |->
        IF \E j \in 1..Len(UpperCase) : UpperCase[j] = name[i]
        THEN LowerCase[CHOOSE j \in 1..Len(UpperCase) : UpperCase[j] = name[i]]
        ELSE name[i]]

\* str::contains
contains(name, pattern) ==
    \E i \in 0..(Len(name) - Len(pattern)) :
        SubSeq(name, i + 1, i + Len(pattern)) = pattern

NoRole == [some |-> FALSE]
SomeRole(role) == [some |-> TRUE, role |-> role]

\* Mutant: "review" is looked for before "commander".
match_pane_name_to_role_review_first(title) ==
    LET name == to_lowercase(title) IN
    IF contains(name, KwOverseer) THEN SomeRole("Overseer")
    ELSE IF contains(name, KwReview) THEN SomeRole("Review")
    ELSE IF contains(name, KwCommander) THEN SomeRole("Commander")
    ELSE IF contains(name, KwTaskList) THEN SomeRole("TaskList")
    ELSE IF contains(name, KwEditor) THEN SomeRole("Editor")
    ELSE NoRole

match_pane_name_to_role(title) ==
    LET name == to_lowercase(title) IN
    IF contains(name, KwOverseer) THEN SomeRole("Overseer")
    ELSE IF contains(name, KwCommander) THEN SomeRole("Commander")
    ELSE IF contains(name, KwTaskList) THEN SomeRole("TaskList")
    ELSE IF contains(name, KwReview) THEN SomeRole("Review")
    ELSE IF contains(name, KwEditor) THEN SomeRole("Editor")
    ELSE NoRole

\* The keywords of the older module
KwTasklistJoined == <<"t", "a", "s", "k", "l", "i", "s", "t">>
KwTaskListDash == <<"t", "a", "s", "k", "-", "l", "i", "s", "t">>
KwTaskListUnderscore == <<"t", "a", "s", "k", "_", "l", "i", "s", "t">>

\* communication.rs, MessageRouter::match_pane_name_to_role
match_pane_name_to_role_legacy(title) ==
    LET name == to_lowercase(title) IN
    IF contains(name, KwOverseer) THEN SomeRole("Overseer")
    ELSE IF contains(name, KwCommander) THEN SomeRole("Commander")
    ELSE IF \/ contains(name, KwTasklistJoined)
            \/ contains(name, KwTaskListDash)
            \/ contains(name, KwTaskListUnderscore) THEN SomeRole("TaskList")
    ELSE IF contains(name, KwReview) THEN SomeRole("Review")
    ELSE IF contains(name, KwEditor) THEN SomeRole("Editor")
    ELSE NoRole

\* The words titles are made of: the keywords in several spellings and
\* capitalisations, parts of keywords, and words that are no keyword.
TitleWords ==
    {<<"O", "v", "e", "r", "s", "e", "e", "r">>,
     <<"C", "O", "M", "M", "A", "N", "D", "E", "R">>,
     <<"T", "a", "s", "k", " ", "L", "i", "s", "t">>,
     <<"T", "a", "s", "k", "L", "i", "s", "t">>,
     <<"t", "a", "s", "k", "-", "l", "i", "s", "t">>,
     <<"T", "a", "s", "k", "_", "L", "i", "s", "t">>,
     <<"R", "e", "v", "i", "e", "w">>,
     <<"e", "d", "i", "t", "o", "r">>,
     <<"P", "a", "n", "e">>,
     <<"T", "a", "s", "k">>,
     <<"L", "i", "s", "t">>,
     <<>>}

Space == <<" ">>

\* Titles of two words
TitleNames == {first \o Space \o second : first, second \in TitleWords}

NoName == <<>>

MatchInit ==
    /\ pane_name = NoName
    /\ matched = NoRole
    /\ matched_legacy = NoRole

\* A title is matched, by the router in use and by the older one.
MatchPaneName(title) ==
    /\ pane_name' = title
    /\ matched' = match_pane_name_to_role(title)
    /\ matched_legacy' = match_pane_name_to_role_legacy(title)
    /\ UNCHANGED exceptMatch

MatchNext == \E title \in TitleNames : MatchPaneName(title)

(***************************************************************************)
(* MessageRouter: the registry and the delivery operations                 *)
(***************************************************************************)

Terminal(id) == [kind |-> "Terminal", id |-> id]
Plugin(id) == [kind |-> "Plugin", id |-> id]

NoPaneId == [some |-> FALSE]
SomePaneId(pane_id) == [some |-> TRUE, pane_id |-> pane_id]

\* HashMap::new()
EmptyRegistry == [role \in {} |-> Terminal(0)]

\* Mutant: an existing entry is kept (entry().or_insert()).
insert_or_keep(registry, role, pane_id) ==
    [r \in DOMAIN registry \cup {role} |->
        IF r \in DOMAIN registry THEN registry[r] ELSE pane_id]

\* HashMap::insert
insert(registry, role, pane_id) ==
    [r \in DOMAIN registry \cup {role} |-> IF r = role THEN pane_id ELSE registry[r]]

\* Mutant: an endpoint is held by one role only; the roles that had it lose it.
register_pane_exclusive(registry, role, pane_id) ==
    [r \in {role} \cup {other \in DOMAIN registry : registry[other] # pane_id} |->
        IF r = role THEN pane_id ELSE registry[r]]

register_pane(registry, role, pane_id) == insert(registry, role, pane_id)

get_pane_id(registry, role) ==
    IF role \in DOMAIN registry THEN SomePaneId(registry[role]) ELSE NoPaneId

Unit == [ok |-> TRUE]
PaneNotFound(role) == [ok |-> FALSE, error |-> "PaneNotFound", role |-> role]
PaneDiscoveryFailed ==
    [ok |-> FALSE, error |-> "PaneDiscoveryFailed",
     detail |-> "No matching panes found in current layout"]

\* One call of ZellijService::write_chars_to_pane_id
Write(text, pane_id) == [message |-> text, pane_id |-> pane_id]

\* What a delivery operation returns and what it wrote on the way.
Outcome(result, writes) == [result |-> result, writes |-> writes]

\* Mutant: a missing pane is skipped silently.
route_message_to_role_skip(registry, message, target_role) ==
    LET pane_id == get_pane_id(registry, target_role) IN
    IF ~pane_id.some THEN Outcome(Unit, <<>>)
    ELSE Outcome(Unit, <<Write(to_string_message(message), pane_id.pane_id)>>)

\* Mutant: the write is made a second time.
route_message_to_role_twice(registry, message, target_role) ==
    LET pane_id == get_pane_id(registry, target_role) IN
    IF ~pane_id.some THEN Outcome(PaneNotFound(target_role), <<>>)
    ELSE Outcome(Unit, <<Write(to_string_message(message), pane_id.pane_id),
                         Write(to_string_message(message), pane_id.pane_id)>>)

\* serde_json::to_string of a CoordinationMessage cannot fail (no map with
\* non-string keys, no failing Serialize), so the SerializationError branch
\* is never taken.
route_message_to_role(registry, message, target_role) ==
    LET pane_id == get_pane_id(registry, target_role) IN
    IF ~pane_id.some THEN Outcome(PaneNotFound(target_role), <<>>)
    ELSE Outcome(Unit, <<Write(to_string_message(message), pane_id.pane_id)>>)

\* Mutant: the command goes through the codec and is written in quotes.
execute_command_in_role_encoded(registry, command, target_role) ==
    LET pane_id == get_pane_id(registry, target_role) IN
    IF ~pane_id.some THEN Outcome(PaneNotFound(target_role), <<>>)
    ELSE Outcome(Unit, <<Write(<<Punct("\"")>> \o command \o <<Punct("\"")>>,
                               pane_id.pane_id)>>)

execute_command_in_role(registry, command, target_role) ==
    LET pane_id == get_pane_id(registry, target_role) IN
    IF ~pane_id.some THEN Outcome(PaneNotFound(target_role), <<>>)
    ELSE Outcome(Unit, <<Write(command, pane_id.pane_id)>>)

\* Mutant: the fan-out stops at the first role that fails.
RECURSIVE route_message_to_roles_until_error(_, _, _)
route_message_to_roles_until_error(registry, message, target_roles) ==
    IF target_roles = <<>> THEN Outcome(<<>>, <<>>)
    ELSE LET one == route_message_to_role(registry, message, Head(target_roles))
             rest == IF one.result.ok
                     THEN route_message_to_roles_until_error(registry, message,
                                                             Tail(target_roles))
                     ELSE Outcome(<<>>, <<>>)
         IN Outcome(<<[role |-> Head(target_roles), result |-> one.result]>>
                        \o rest.result,
                    one.writes \o rest.writes)

RECURSIVE route_message_to_roles(_, _, _)
route_message_to_roles(registry, message, target_roles) ==
    IF target_roles = <<>> THEN Outcome(<<>>, <<>>)
    ELSE LET one == route_message_to_role(registry, message, Head(target_roles))
             rest == route_message_to_roles(registry, message, Tail(target_roles))
         IN Outcome(<<[role |-> Head(target_roles), result |-> one.result]>>
                        \o rest.result,
                    one.writes \o rest.writes)

\* The orders in which a HashMap may yield the members of a set.
RECURSIVE Orders(_)
Orders(S) ==
    IF S = {} THEN {<<>>}
    ELSE UNION {{<<x>> \o order : order \in Orders(S \ {x})} : x \in S}

\* Mutant: every role of the enumeration is addressed, registered or not.
broadcast_to_all_every_role(registry, message, all_roles) ==
    route_message_to_roles(registry, message,
                           <<"Overseer", "Commander", "TaskList", "Review", "Editor">>)

\* all_roles is self.pane_registry.keys() in the order the map yields them
broadcast_to_all(registry, message, all_roles) ==
    route_message_to_roles(registry, message, all_roles)

(***************************************************************************)
(* Discovery                                                               *)
(***************************************************************************)

PaneInfo(id, title, is_plugin) == [id |-> id, title |-> title, is_plugin |-> is_plugin]

\* for panes in pane_manifest.panes.values() { for pane_info in panes {..} }
\* with the tabs in the order the map yields them
RECURSIVE Scan(_, _)
Scan(panes, tabs) ==
    IF tabs = <<>> THEN <<>> ELSE panes[Head(tabs)] \o Scan(panes, Tail(tabs))

\* Mutant: every pane is taken for a terminal pane.
PaneIdOf_terminal(pane_info) == Terminal(pane_info.id)

PaneIdOf(pane_info) ==
    IF pane_info.is_plugin THEN Plugin(pane_info.id) ELSE Terminal(pane_info.id)

\* The loop body over the panes i.. of the scan.
RECURSIVE ScanPanes(_, _, _, _)
ScanPanes(scan, i, registry, discovered_panes) ==
    IF i > Len(scan)
    THEN [registry |-> registry, discovered_panes |-> discovered_panes]
    ELSE LET role == match_pane_name_to_role(scan[i].title) IN
         IF role.some
         THEN ScanPanes(scan, i + 1, insert(registry, role.role, PaneIdOf(scan[i])),
                        discovered_panes + 1)
         ELSE ScanPanes(scan, i + 1, registry, discovered_panes)

\* Mutant: the registry is not cleared.
discover_panes_with_manifest_no_clear(registry, scan) ==
    LET done == ScanPanes(scan, 1, registry, 0)
    IN [registry |-> done.registry,
        result |-> IF done.discovered_panes = 0 THEN PaneDiscoveryFailed ELSE Unit]

\* The registry is cleared first, whatever it held.
discover_panes_with_manifest(registry, scan) ==
    LET cleared == EmptyRegistry
        done == ScanPanes(scan, 1, cleared, 0)
    IN [registry |-> done.registry,
        result |-> IF done.discovered_panes = 0 THEN PaneDiscoveryFailed ELSE Unit]

(***************************************************************************)
(* Input sets of the router                                                *)
(***************************************************************************)

MaxRoles == 2
MaxPanes == 2

RouterMessages ==
    {[variant |-> "AllTasksComplete"],
     [variant |-> "StartPlanning", task_id |-> 123, task_description |-> "Test task"]}

\* Command lines: "ls -la", the empty line, and a line that is also the
\* encoding of a message.
Commands ==
    {<<Lit("ls"), Ws, Lit("-la")>>, <<>>, to_string_message([variant |-> "AllTasksComplete"])}

RegisterPaneIds == {Plugin(1), Terminal(2)}

\* Every list of at most MaxRoles roles, and the three roles of
\* test_route_message_to_roles in each order.
RoleLists ==
    UNION {[1..n -> PaneRole] : n \in 0..MaxRoles}
    \cup Orders({"Overseer", "Commander", "TaskList"})

\* HashMap::new()
NoTabs == [tab \in {} |-> <<>>]

\* create_empty_pane_manifest
EmptyManifest == [panes |-> NoTabs]

\* create_mock_pane_manifest, with the titles of the five-pane example
MockManifest ==
    [panes |-> (0 :> <<PaneInfo(1, OverseerAI, TRUE),
                       PaneInfo(2, CommanderTerm, FALSE),
                       PaneInfo(3, TaskListMgr, TRUE),
                       PaneInfo(4, CodeReview, TRUE),
                       PaneInfo(5, MainEditor, FALSE)>>)]

GeneratedTitles == {OverseerAI, CommanderTerm, RandomPane}

\* The tabs of n panes, numbered in listing order.
TabsOf(n) ==
    {[i \in 1..n |-> PaneInfo(i, shape[i][1], shape[i][2])] :
        shape \in [1..n -> GeneratedTitles \X BOOLEAN]}

OneTabManifests == {[panes |-> (0 :> tab)] : tab \in UNION {TabsOf(n) : n \in 0..MaxPanes}}

\* Layouts of two tabs: the same role in both, a role in one only, no role.
TwoTabManifests ==
    {[panes |-> (0 :> <<PaneInfo(1, OverseerAI, TRUE)>>)
                @@ (1 :> <<PaneInfo(2, OverseerAI, FALSE)>>)],
     [panes |-> (0 :> <<PaneInfo(1, RandomPane, FALSE), PaneInfo(2, CommanderTerm, TRUE)>>)
                @@ (1 :> <<PaneInfo(3, CommanderTerm, FALSE), PaneInfo(4, MainEditor, FALSE)>>)],
     [panes |-> (0 :> <<PaneInfo(1, RandomPane, FALSE)>>) @@ (1 :> <<>>)]}

\* A plugin pane with a title of two words, and a terminal pane beside it.
NamedManifests ==
    {[panes |-> (0 :> <<PaneInfo(1, title, TRUE), PaneInfo(2, RandomPane, FALSE)>>)] :
        title \in TitleNames}

Manifests ==
    {EmptyManifest, MockManifest} \cup OneTabManifests \cup TwoTabManifests
    \cup NamedManifests

(***************************************************************************)
(* MessageEnvelope: constructors and predicates                            *)
(***************************************************************************)

\* MessageEnvelope::new_targeted; now is what current_timestamp() returns
new_targeted(message, target_pane, sender, now) ==
    [target_pane |-> Some(target_pane), coordination_message |-> message,
     sender |-> sender, timestamp |-> now]

\* MessageEnvelope::new_broadcast
new_broadcast(message, sender, now) ==
    [target_pane |-> None, coordination_message |-> message,
     sender |-> sender, timestamp |-> now]

\* Mutant: an envelope without target is for nobody.
is_targeted_to_only_targeted(e, title) ==
    IF e.target_pane.some THEN e.target_pane.v = title ELSE FALSE

\* Mutant: the empty title is accepted by every envelope.
is_targeted_to_empty_any(e, title) ==
    IF e.target_pane.some THEN (e.target_pane.v = title \/ title = "") ELSE TRUE

is_targeted_to(e, title) ==
    IF e.target_pane.some THEN e.target_pane.v = title ELSE TRUE

is_broadcast(e) == ~e.target_pane.some

\* The titles asked about: the targets in use, one in other letters, a
\* prefix of one.
AskedTitles == Strings \cup {"Test-Pane", "test"}

NoEnvelope == [made |-> FALSE]
NoAnswer == [asked |-> FALSE]

EnvelopeInit ==
    /\ built = NoEnvelope
    /\ pane_title = ""
    /\ answer = NoAnswer

NewTargeted(message, target_pane, sender, now) ==
    /\ built' = [made |-> TRUE, by |-> "new_targeted",
                 e |-> new_targeted(message, target_pane, sender, now)]
    /\ pane_title' = ""
    /\ answer' = NoAnswer
    /\ UNCHANGED exceptEnvelope

NewBroadcast(message, sender, now) ==
    /\ built' = [made |-> TRUE, by |-> "new_broadcast",
                 e |-> new_broadcast(message, sender, now)]
    /\ pane_title' = ""
    /\ answer' = NoAnswer
    /\ UNCHANGED exceptEnvelope

\* The receiver asks both predicates of the envelope it holds.
IsTargetedTo(title) ==
    /\ built.made
    /\ pane_title' = title
    /\ answer' = [asked |-> TRUE,
                  is_targeted_to |-> is_targeted_to(built.e, title),
                  is_broadcast |-> is_broadcast(built.e)]
    /\ UNCHANGED built
    /\ UNCHANGED exceptEnvelope

EnvelopeNext ==
    \/ \E message \in Messages, target_pane \in Strings, sender \in Strings,
          now \in Timestamps : NewTargeted(message, target_pane, sender, now)
    \/ \E message \in Messages, sender \in Strings, now \in Timestamps :
            NewBroadcast(message, sender, now)
    \/ \E title \in AskedTitles : IsTargetedTo(title)

(***************************************************************************)
(* The router as a state machine                                           *)
(***************************************************************************)

NoCall == [op |-> "none"]

RouterInit ==
    /\ pane_registry = EmptyRegistry
    /\ sent_messages = <<>>
    /\ last = NoCall

RegisterPane(role, pane_id) ==
    /\ last = NoCall
    /\ pane_registry' = register_pane(pane_registry, role, pane_id)
    /\ last' = [op |-> "register_pane", role |-> role, pane_id |-> pane_id,
                registry_before |-> pane_registry]
    /\ UNCHANGED sent_messages
    /\ UNCHANGED exceptRouter

\* Mutant: the role the message was routed to is forgotten.
RouteMessageToRole_changing_registry(message, target_role) ==
    LET done == route_message_to_role(pane_registry, message, target_role) IN
    /\ last = NoCall
    /\ sent_messages' = sent_messages \o done.writes
    /\ last' = [op |-> "route_message_to_role", message |-> message,
                target_role |-> target_role, result |-> done.result]
    /\ pane_registry' = [role \in DOMAIN pane_registry \ {target_role} |->
                            pane_registry[role]]
    /\ UNCHANGED exceptRouter

RouteMessageToRole(message, target_role) ==
    LET done == route_message_to_role(pane_registry, message, target_role) IN
    /\ last = NoCall
    /\ sent_messages' = sent_messages \o done.writes
    /\ last' = [op |-> "route_message_to_role", message |-> message,
                target_role |-> target_role, result |-> done.result]
    /\ UNCHANGED pane_registry
    /\ UNCHANGED exceptRouter

ExecuteCommandInRole(command, target_role) ==
    LET done == execute_command_in_role(pane_registry, command, target_role) IN
    /\ last = NoCall
    /\ sent_messages' = sent_messages \o done.writes
    /\ last' = [op |-> "execute_command_in_role", command |-> command,
                target_role |-> target_role, result |-> done.result]
    /\ UNCHANGED pane_registry
    /\ UNCHANGED exceptRouter

RouteMessageToRoles(message, target_roles) ==
    LET done == route_message_to_roles(pane_registry, message, target_roles) IN
    /\ last = NoCall
    /\ sent_messages' = sent_messages \o done.writes
    /\ last' = [op |-> "route_message_to_roles", message |-> message,
                target_roles |-> target_roles, results |-> done.result]
    /\ UNCHANGED pane_registry
    /\ UNCHANGED exceptRouter

BroadcastToAll(message) ==
    \E all_roles \in Orders(DOMAIN pane_registry) :
        LET done == broadcast_to_all(pane_registry, message, all_roles) IN
        /\ last = NoCall
        /\ sent_messages' = sent_messages \o done.writes
        /\ last' = [op |-> "broadcast_to_all", message |-> message,
                    results |-> done.result]
        /\ UNCHANGED pane_registry
        /\ UNCHANGED exceptRouter

DiscoverPanes(pane_manifest) ==
    \E tabs \in Orders(DOMAIN pane_manifest.panes) :
        LET scan == Scan(pane_manifest.panes, tabs)
            done == discover_panes_with_manifest(pane_registry, scan)
        IN /\ last = NoCall
           /\ pane_registry' = done.registry
           /\ UNCHANGED sent_messages
           /\ last' = [op |-> "discover_panes_with_manifest",
                       pane_manifest |-> pane_manifest, scan |-> scan,
                       before |-> DOMAIN pane_registry, result |-> done.result]
           /\ UNCHANGED exceptRouter

\* The caller has looked at the result and at what the transport recorded
\* (MockZellijService::clear) and goes on to its next call.
Return ==
    /\ last # NoCall
    /\ last' = NoCall
    /\ sent_messages' = <<>>
    /\ UNCHANGED pane_registry
    /\ UNCHANGED exceptRouter

RouterNext ==
    \/ \E role \in PaneRole, pane_id \in RegisterPaneIds : RegisterPane(role, pane_id)
    \/ \E message \in RouterMessages, role \in PaneRole : RouteMessageToRole(message, role)
    \/ \E command \in Commands, role \in PaneRole : ExecuteCommandInRole(command, role)
    \/ \E message \in RouterMessages, roles \in RoleLists : RouteMessageToRoles(message, roles)
    \/ \E message \in RouterMessages : BroadcastToAll(message)
    \/ Return

\* The router with all its operations: register, discover and the deliveries
RegistryNext ==
    \/ RouterNext
    \/ \E pane_manifest \in Manifests : DiscoverPanes(pane_manifest)

DiscoverNext ==
    \/ \E role \in {"Overseer", "Editor"} : RegisterPane(role, Terminal(42))
    \/ \E pane_manifest \in Manifests : DiscoverPanes(pane_manifest)
    \/ Return

(***************************************************************************)
(* FileSystem: atomic write, read, and the retry wrapper                   *)
(***************************************************************************)

MAX_RETRIES == 3
\* in ms
RETRY_DELAY == 50
\* in ms
OPERATION_TIMEOUT == 5000

\* A path of the directory: the stem of the file name and its extension.
PathOf(stem, extension) == [stem |-> stem, extension |-> extension]

\* Path::with_extension
with_extension(path, extension) == [stem |-> path.stem, extension |-> extension]

\* The paths written and read: an artifact, and a file that has the
\* extension of the temporary files.
Paths == {PathOf("plan", "md"), PathOf("notes", "tmp")}

\* File contents, as the pieces they are written in.
Contents == {<<>>, <<"x">>, <<"y", "z">>}

\* The kinds of io::Error a system call fails with here.
IoErrorKinds == {"PermissionDenied", "WouldBlock", "Interrupted", "NotFound"}

FsErr(error) == [ok |-> FALSE, error |-> error]
Timeout == FsErr("Timeout")
PermissionDenied == FsErr("PermissionDenied")
ConcurrentAccess == FsErr("ConcurrentAccess")
Io(kind) == [ok |-> FALSE, error |-> "Io", kind |-> kind]

\* impl From<io::Error> for FileSystemError
From(kind) ==
    IF kind = "PermissionDenied" THEN PermissionDenied
    ELSE IF kind = "WouldBlock" THEN ConcurrentAccess
    ELSE Io(kind)

\* What closures handed to with_retry return when they fail.
OperationErrors == {ConcurrentAccess, PermissionDenied, Timeout, Io("Interrupted"), Io("NotFound")}

\* Ok(content) of a read
Read(content) == [ok |-> TRUE, content |-> content]

NoFiles == [path \in {} |-> <<>>]

\* What is at a path
Absent == [exists |-> FALSE]
Present(content) == [exists |-> TRUE, content |-> content]
At(fs, path) == IF path \in DOMAIN fs THEN Present(fs[path]) ELSE Absent

\* The content that is there, the empty content when no file is.
Before(found) == IF found.exists THEN found.content ELSE <<>>

\* fs::File::create: the file is created, or truncated when it is there
create(fs, path) == [p \in DOMAIN fs \cup {path} |-> IF p = path THEN <<>> ELSE fs[p]]

\* One write(2) of write_all: the next piece goes to the end of the file
write(fs, path, piece) == [fs EXCEPT ![path] = Append(@, piece)]

\* Mutant: the file is opened as File::create opens it.
open_append_truncating(fs, path) ==
    [p \in DOMAIN fs \cup {path} |-> IF p = path THEN <<>> ELSE fs[p]]

\* OpenOptions::new().create(true).append(true).open(path): the file is
\* created when it is absent and stays as it is otherwise
open_append(fs, path) ==
    [p \in DOMAIN fs \cup {path} |-> IF p \in DOMAIN fs THEN fs[p] ELSE <<>>]

\* Mutant: every path is taken to be free.
file_exists_never(fs, path) == FALSE

\* path.exists() && path.is_file()
file_exists(fs, path) == path \in DOMAIN fs

\* Mutant: the temporary file is copied to its place and stays.
rename_as_copy(fs, from, to) ==
    [p \in DOMAIN fs \cup {to} |-> IF p = to THEN fs[from] ELSE fs[p]]

\* fs::rename: the file takes the new name and replaces what was there; a file
\* renamed to itself stays as it is
rename(fs, from, to) ==
    [p \in (DOMAIN fs \ {from}) \cup {to} |-> IF p = to THEN fs[from] ELSE fs[p]]

\* fs::read_to_string
read_to_string(fs, path) ==
    IF path \in DOMAIN fs THEN Read(fs[path]) ELSE From("NotFound")

\* Mutant: a denied permission is tried again like a busy file.
after_attempt_retry_denied(result, n) ==
    IF result.ok THEN [return |-> TRUE, result |-> result]
    ELSE IF result.error \in {"ConcurrentAccess", "PermissionDenied"} /\ n < MAX_RETRIES
    THEN [return |-> FALSE, attempt |-> n + 1, sleep |-> RETRY_DELAY * (n + 1)]
    ELSE [return |-> TRUE, result |-> result]

\* Mutant: the last attempt is followed by one more.
after_attempt_once_more(result, n) ==
    IF result.ok THEN [return |-> TRUE, result |-> result]
    ELSE IF result.error = "ConcurrentAccess" /\ n <= MAX_RETRIES
    THEN [return |-> FALSE, attempt |-> n + 1, sleep |-> RETRY_DELAY * (n + 1)]
    ELSE IF result.error = "Io" /\ result.kind = "Interrupted" /\ n <= MAX_RETRIES
    THEN [return |-> FALSE, attempt |-> n + 1, sleep |-> RETRY_DELAY * (n + 1)]
    ELSE [return |-> TRUE, result |-> result]

\* Mutant: an interrupted attempt is tried again without being counted.
after_attempt_interrupted_uncounted(result, n) ==
    IF result.ok THEN [return |-> TRUE, result |-> result]
    ELSE IF result.error = "ConcurrentAccess" /\ n < MAX_RETRIES
    THEN [return |-> FALSE, attempt |-> n + 1, sleep |-> RETRY_DELAY * (n + 1)]
    ELSE IF result.error = "Io" /\ result.kind = "Interrupted" /\ n < MAX_RETRIES
    THEN [return |-> FALSE, attempt |-> n, sleep |-> RETRY_DELAY * (n + 1)]
    ELSE [return |-> TRUE, result |-> result]

\* Mutant: the delay doubles from one attempt to the next.
after_attempt_exponential(result, n) ==
    IF result.ok THEN [return |-> TRUE, result |-> result]
    ELSE IF result.error = "ConcurrentAccess" /\ n < MAX_RETRIES
    THEN [return |-> FALSE, attempt |-> n + 1, sleep |-> RETRY_DELAY * (2 ^ n)]
    ELSE IF result.error = "Io" /\ result.kind = "Interrupted" /\ n < MAX_RETRIES
    THEN [return |-> FALSE, attempt |-> n + 1, sleep |-> RETRY_DELAY * (2 ^ n)]
    ELSE [return |-> TRUE, result |-> result]

\* Mutant: a transient failure is always tried again.
after_attempt_unbounded(result, n) ==
    IF result.ok THEN [return |-> TRUE, result |-> result]
    ELSE IF result.error = "ConcurrentAccess"
    THEN [return |-> FALSE, attempt |-> n + 1, sleep |-> RETRY_DELAY * (n + 1)]
    ELSE IF result.error = "Io" /\ result.kind = "Interrupted"
    THEN [return |-> FALSE, attempt |-> n + 1, sleep |-> RETRY_DELAY * (n + 1)]
    ELSE [return |-> TRUE, result |-> result]

\* with_retry: match operation() { .. } with n the attempt counter
after_attempt(result, n) ==
    IF result.ok THEN [return |-> TRUE, result |-> result]
    ELSE IF result.error = "ConcurrentAccess" /\ n < MAX_RETRIES
    THEN [return |-> FALSE, attempt |-> n + 1, sleep |-> RETRY_DELAY * (n + 1)]
    ELSE IF result.error = "Io" /\ result.kind = "Interrupted" /\ n < MAX_RETRIES
    THEN [return |-> FALSE, attempt |-> n + 1, sleep |-> RETRY_DELAY * (n + 1)]
    ELSE [return |-> TRUE, result |-> result]

\* How long one invocation of the operation takes, in ms.
OperationTimes == {0, 2450, 2600}

NoFsCall == [op |-> "none"]
NoFsResult == [returned |-> FALSE]

FsInit ==
    /\ files = NoFiles
    /\ fs_call = NoFsCall
    /\ fs_pc = "idle"
    /\ attempt = 0
    /\ invocations = 0
    /\ elapsed = 0
    /\ slept = <<>>
    /\ fs_result = NoFsResult

\* with_retry is entered: start_time = Instant::now(), attempt = 0
Enter(call) ==
    /\ fs_pc = "idle"
    /\ fs_call' = call
    /\ fs_pc' = "loop"
    /\ attempt' = 0
    /\ invocations' = 0
    /\ elapsed' = 0
    /\ slept' = <<>>
    /\ fs_result' = NoFsResult
    /\ UNCHANGED files
    /\ UNCHANGED exceptFs

WriteFileAtomic(path, content) ==
    Enter([op |-> "write_file_atomic", path |-> path, content |-> content,
           temp_path |-> with_extension(path, "tmp"), found |-> At(files, path)])

ReadFileSafe(path) ==
    Enter([op |-> "read_file_safe", path |-> path, found |-> At(files, path)])

\* with_retry called with a closure of the caller's
WithRetry == Enter([op |-> "operation"])

\* Mutant: the loop goes on to the next attempt whatever time has passed.
LoopHead_without_budget ==
    /\ fs_pc = "loop"
    /\ fs_pc' = IF fs_call.op \in {"write_file_atomic", "ensure_file_exists"}
                THEN "create"
                ELSE IF fs_call.op = "read_file_safe" THEN "read"
                ELSE IF fs_call.op \in {"append_to_file", "log_to_file"}
                THEN "open"
                ELSE "operation"
    /\ invocations' = invocations + 1
    /\ UNCHANGED <<files, fs_call, attempt, elapsed, slept, fs_result>>
    /\ UNCHANGED exceptFs

\* The head of the loop: the budget is checked, then the operation is invoked.
LoopHead ==
    /\ fs_pc = "loop"
    /\ IF elapsed > OPERATION_TIMEOUT
       THEN /\ fs_pc' = "returned"
            /\ fs_result' = [returned |-> TRUE, result |-> Timeout]
            /\ UNCHANGED invocations
       ELSE /\ fs_pc' = IF fs_call.op \in {"write_file_atomic", "ensure_file_exists"}
                        THEN "create"
                        ELSE IF fs_call.op = "read_file_safe" THEN "read"
                        ELSE IF fs_call.op \in {"append_to_file", "log_to_file"}
                        THEN "open"
                        ELSE "operation"
            /\ invocations' = invocations + 1
            /\ UNCHANGED fs_result
    /\ UNCHANGED <<files, fs_call, attempt, elapsed, slept>>
    /\ UNCHANGED exceptFs

\* Mutant: the budget is looked at again when the invocation has ended.
Ended_within_budget(result, time) ==
    LET next == after_attempt(result, attempt) IN
    IF elapsed + time > OPERATION_TIMEOUT
    THEN /\ fs_pc' = "returned"
         /\ fs_result' = [returned |-> TRUE, result |-> Timeout]
         /\ elapsed' = elapsed + time
         /\ UNCHANGED <<attempt, slept>>
    ELSE IF next.return
    THEN /\ fs_pc' = "returned"
         /\ fs_result' = [returned |-> TRUE, result |-> next.result]
         /\ elapsed' = elapsed + time
         /\ UNCHANGED <<attempt, slept>>
    ELSE /\ fs_pc' = "loop"
         /\ attempt' = next.attempt
         /\ slept' = Append(slept, next.sleep)
         /\ elapsed' = elapsed + time + next.sleep
         /\ UNCHANGED fs_result

\* The invocation has ended with result after time ms; with_retry returns it,
\* or counts the attempt, sleeps and goes back to the head of the loop.
Ended(result, time) ==
    LET next == after_attempt(result, attempt) IN
    IF next.return
    THEN /\ fs_pc' = "returned"
         /\ fs_result' = [returned |-> TRUE, result |-> next.result]
         /\ elapsed' = elapsed + time
         /\ UNCHANGED <<attempt, slept>>
    ELSE /\ fs_pc' = "loop"
         /\ attempt' = next.attempt
         /\ slept' = Append(slept, next.sleep)
         /\ elapsed' = elapsed + time + next.sleep
         /\ UNCHANGED fs_result

\* A step of the operation fails; `?` converts the io::Error and leaves.
StepFails(kind, time) ==
    /\ fs_pc \in {"create", "write", "sync", "rename", "read",
                 "open", "append", "append_sync"}
    /\ Ended(From(kind), time)
    /\ UNCHANGED <<files, fs_call, invocations>>
    /\ UNCHANGED exceptFs

\* fs::File::create(&temp_path)
CreateTemp ==
    /\ fs_pc = "create"
    /\ files' = create(files, fs_call.temp_path)
    /\ fs_pc' = "write"
    /\ UNCHANGED <<fs_call, attempt, invocations, elapsed, slept, fs_result>>
    /\ UNCHANGED exceptFs

\* temp_file.write_all(content.as_bytes()): piece by piece, then it returns
WriteAll ==
    /\ fs_pc = "write"
    /\ LET done == Len(files[fs_call.temp_path]) IN
       IF done < Len(fs_call.content)
       THEN /\ files' = write(files, fs_call.temp_path, fs_call.content[done + 1])
            /\ UNCHANGED fs_pc
       ELSE /\ fs_pc' = "sync"
            /\ UNCHANGED files
    /\ UNCHANGED <<fs_call, attempt, invocations, elapsed, slept, fs_result>>
    /\ UNCHANGED exceptFs

\* temp_file.sync_all(); drop(temp_file)
SyncAll ==
    /\ fs_pc = "sync"
    /\ fs_pc' = "rename"
    /\ UNCHANGED <<files, fs_call, attempt, invocations, elapsed, slept, fs_result>>
    /\ UNCHANGED exceptFs

\* fs::rename(&temp_path, path); Ok(())
Rename(time) ==
    /\ fs_pc = "rename"
    /\ files' = rename(files, fs_call.temp_path, fs_call.path)
    /\ Ended(Unit, time)
    /\ UNCHANGED <<fs_call, invocations>>
    /\ UNCHANGED exceptFs

\* fs::read_to_string(path).map_err(FileSystemError::from)
ReadToString(time) ==
    /\ fs_pc = "read"
    /\ Ended(read_to_string(files, fs_call.path), time)
    /\ UNCHANGED <<files, fs_call, invocations>>
    /\ UNCHANGED exceptFs

\* The caller's closure returns.
Operation(result, time) ==
    /\ fs_pc = "operation"
    /\ Ended(result, time)
    /\ UNCHANGED <<files, fs_call, invocations>>
    /\ UNCHANGED exceptFs

\* The caller has the result and goes on to its next call.
FsReturn ==
    /\ fs_pc = "returned"
    /\ fs_pc' = "idle"
    /\ UNCHANGED <<files, fs_call, attempt, invocations, elapsed, slept, fs_result>>
    /\ UNCHANGED exceptFs

FsNext ==
    \/ \E path \in Paths, content \in Contents : WriteFileAtomic(path, content)
    \/ \E path \in Paths : ReadFileSafe(path)
    \/ WithRetry
    \/ LoopHead
    \/ \E kind \in IoErrorKinds, time \in OperationTimes : StepFails(kind, time)
    \/ CreateTemp
    \/ WriteAll
    \/ SyncAll
    \/ \E time \in OperationTimes : Rename(time)
    \/ \E time \in OperationTimes : ReadToString(time)
    \/ \E result \in {Unit} \cup OperationErrors, time \in OperationTimes :
            Operation(result, time)
    \/ FsReturn

\* The log the appends go to, and a file that has the extension of the
\* temporary files.
LogPaths == {PathOf("coordinator", "log")}
StorePaths == LogPaths \cup {PathOf("notes", "tmp")}

\* The appends are called on files of at most so many pieces.
MaxPieces == 2

\* What the clock shows, in seconds since the epoch, and the messages logged.
ClockValues == {0, 1700000000}
LogMessages == {"First message", "Second message"}

\* format!("[{}] {}\n", timestamp, message)
\* written as the line and the newline that ends it
LogEntry(timestamp, message) ==
    <<"[" \o ToString(timestamp) \o "] " \o message, "\n">>

\* The invocations of the store's own operations take no time here.
StoreTimes == {0}

Pieces(found) == IF found.exists THEN Len(found.content) ELSE 0

\* FileSystem::append_to_file: the closure is handed to with_retry
AppendToFile(path, content) ==
    /\ Pieces(At(files, path)) <= MaxPieces
    /\ Enter([op |-> "append_to_file", path |-> path, content |-> content,
              found |-> At(files, path), written |-> 0])

\* FileSystem::log_to_file with the clock at now
LogToFile(path, message, now) ==
    /\ Pieces(At(files, path)) <= MaxPieces
    /\ Enter([op |-> "log_to_file", path |-> path, content |-> LogEntry(now, message),
              found |-> At(files, path), written |-> 0,
              timestamp |-> now, text |-> message])

\* OpenOptions::new().create(true).append(true).open(path)
OpenAppend ==
    /\ fs_pc = "open"
    /\ files' = open_append(files, fs_call.path)
    /\ fs_call' = [fs_call EXCEPT !.written = 0]
    /\ fs_pc' = "append"
    /\ UNCHANGED <<attempt, invocations, elapsed, slept, fs_result>>
    /\ UNCHANGED exceptFs

\* file.write_all(content.as_bytes()): piece by piece, each to the end of the
\* file as it is then
AppendAll ==
    /\ fs_pc = "append"
    /\ IF fs_call.written < Len(fs_call.content)
       THEN /\ files' = write(files, fs_call.path, fs_call.content[fs_call.written + 1])
            /\ fs_call' = [fs_call EXCEPT !.written = @ + 1]
            /\ UNCHANGED fs_pc
       ELSE /\ fs_pc' = "append_sync"
            /\ UNCHANGED <<files, fs_call>>
    /\ UNCHANGED <<attempt, invocations, elapsed, slept, fs_result>>
    /\ UNCHANGED exceptFs

\* file.sync_all(); Ok(())
AppendSync(time) ==
    /\ fs_pc = "append_sync"
    /\ Ended(Unit, time)
    /\ UNCHANGED <<files, fs_call, invocations>>
    /\ UNCHANGED exceptFs

\* FileSystem::ensure_file_exists: nothing is done to a file that is there;
\* otherwise write_file_atomic(path, "") runs and its result is the result
EnsureFileExists(path) ==
    LET call == [op |-> "ensure_file_exists", path |-> path, content |-> <<>>,
                 temp_path |-> with_extension(path, "tmp"), found |-> At(files, path)]
    IN  IF file_exists(files, path)
        THEN /\ fs_pc = "idle"
             /\ fs_call' = call
             /\ fs_pc' = "returned"
             /\ fs_result' = [returned |-> TRUE, result |-> Unit]
             /\ attempt' = 0
             /\ invocations' = 0
             /\ elapsed' = 0
             /\ slept' = <<>>
             /\ UNCHANGED files
             /\ UNCHANGED exceptFs
        ELSE Enter(call)

StoreNext ==
    \/ \E path \in LogPaths, content \in Contents : AppendToFile(path, content)
    \/ \E path \in StorePaths : EnsureFileExists(path)
    \/ \E path \in LogPaths, content \in Contents : WriteFileAtomic(path, content)
    \/ \E path \in LogPaths : ReadFileSafe(path)
    \/ WithRetry
    \/ LoopHead
    \/ \E kind \in IoErrorKinds, time \in StoreTimes : StepFails(kind, time)
    \/ OpenAppend
    \/ AppendAll
    \/ \E time \in StoreTimes : AppendSync(time)
    \/ CreateTemp
    \/ WriteAll
    \/ SyncAll
    \/ \E time \in StoreTimes : Rename(time)
    \/ \E time \in StoreTimes : ReadToString(time)
    \/ \E result \in {Unit} \cup OperationErrors, time \in StoreTimes :
            Operation(result, time)
    \/ FsReturn

(***************************************************************************)
(* Threads that append to one file (test_concurrent_append_operations)     *)
(***************************************************************************)

\* for thread_id in 0..5, for i in 0..3, at the sizes checked here
NumWriters == 2
AppendsEach == 2

ThreadIds == 0 .. NumWriters - 1

\* format!("Thread {} - Message {}\n", thread_id, i), as the line and the
\* newline that ends it
ThreadMessage(thread_id, i) ==
    <<"Thread " \o ToString(thread_id) \o " - Message " \o ToString(i), "\n">>

\* Mutant: the data is written where the file ended when it was opened.
write_at_position(content, position, data) ==
    SubSeq(content, 1, position) \o data
        \o SubSeq(content, position + Len(data) + 1, Len(content))

\* write(2) on a file opened with append(true): the offset is set to the end
\* of the file and the data written there, in one step; a write that does
\* not fail takes the whole buffer
write_append(content, position, data) == content \o data

WriterInit ==
    /\ log_file = Absent
    /\ writers = [t \in ThreadIds |-> [at |-> "open", i |-> 0, position |-> 0,
                                      results |-> <<>>]]

\* OpenOptions::new().create(true).append(true).open(path) in thread t
WriterOpen(t) ==
    /\ writers[t].at = "open"
    /\ writers[t].i < AppendsEach
    /\ log_file' = Present(Before(log_file))
    /\ writers' = [writers EXCEPT ![t].at = "write",
                                  ![t].position = Len(Before(log_file))]
    /\ UNCHANGED exceptWriter

\* file.write_all(content.as_bytes()) in thread t
WriterWrite(t) ==
    /\ writers[t].at = "write"
    /\ log_file' = Present(write_append(log_file.content, writers[t].position,
                                        ThreadMessage(t, writers[t].i)))
    /\ writers' = [writers EXCEPT ![t].at = "sync"]
    /\ UNCHANGED exceptWriter

\* file.sync_all(); Ok(()): with_retry returns it, the thread asserts
\* result.is_ok() and goes on to its next message
WriterSync(t) ==
    /\ writers[t].at = "sync"
    /\ writers' = [writers EXCEPT ![t].at = "open",
                                  ![t].i = @ + 1,
                                  ![t].results = Append(@, Unit)]
    /\ UNCHANGED log_file
    /\ UNCHANGED exceptWriter

WriterNext ==
    \/ \E t \in ThreadIds : WriterOpen(t)
    \/ \E t \in ThreadIds : WriterWrite(t)
    \/ \E t \in ThreadIds : WriterSync(t)

(***************************************************************************)
(* write_file_atomic called by several writers at once                     *)
(***************************************************************************)

\* The callers of write_file_atomic that run side by side.
NumAtomic == 2
AtomicIds == 0 .. NumAtomic - 1

\* The final paths they write: two that differ in their extension only, and
\* one of another stem.
AtomicPaths == {PathOf("plan", "md"), PathOf("plan", "txt"), PathOf("todo", "md")}

\* What writer w writes, in the pieces write_all hands to write(2): two
\* pieces for the writers of even number, one for the others.
AtomicContent(w) ==
    [i \in 1 .. (2 - (w % 2)) |-> "writer " \o ToString(w) \o " piece " \o ToString(i)]

\* What plan.md holds before the writers begin.
PriorContent == <<"old">>

\* The byte a gap in a file reads as
ZeroByte == "NUL"

\* write(2) at the offset of the open file, which is not in append mode: the
\* data replaces what is there from the offset on, and a gap before the
\* offset reads as zero bytes
write_at(content, position, data) ==
    LET size == IF Len(content) > position + Len(data)
                THEN Len(content) ELSE position + Len(data)
    IN  [i \in 1 .. size |->
            IF i > position /\ i <= position + Len(data) THEN data[i - position]
            ELSE IF i <= Len(content) THEN content[i]
            ELSE ZeroByte]

\* What a reader finds at a path
Named(dir, store, path) ==
    IF path \in DOMAIN dir THEN Present(store[dir[path]]) ELSE Absent

AtomicInit ==
    /\ directory = [path \in {PathOf("plan", "md")} |-> 1]
    /\ inodes = <<PriorContent>>
    /\ atomics = [w \in AtomicIds |-> [at |-> "idle"]]

\* write_file_atomic(path, content) is called by writer w: temp_path is
\* derived, with_retry is entered and operation() invoked
AtomicStart(w, path) ==
    /\ atomics[w].at = "idle"
    /\ atomics' = [atomics EXCEPT ![w] =
                      [at |-> "create", path |-> path, content |-> AtomicContent(w),
                       temp_path |-> with_extension(path, "tmp"),
                       before |-> Named(directory, inodes, path)]]
    /\ UNCHANGED <<directory, inodes>>
    /\ UNCHANGED exceptAtomic

\* fs::File::create(&temp_path): the file of that name is truncated, or a new
\* file is made and named; the writer holds it open at offset 0
AtomicCreate(w) ==
    LET temp_path == atomics[w].temp_path IN
    /\ atomics[w].at = "create"
    /\ IF temp_path \in DOMAIN directory
       THEN /\ inodes' = [inodes EXCEPT ![directory[temp_path]] = <<>>]
            /\ UNCHANGED directory
       ELSE /\ inodes' = Append(inodes, <<>>)
            /\ directory' = [path \in DOMAIN directory \cup {temp_path} |->
                                IF path = temp_path THEN Len(inodes) + 1
                                ELSE directory[path]]
    /\ atomics' = [atomics EXCEPT ![w] =
                      [@ EXCEPT !.at = "write"] @@
                      [file |-> directory'[temp_path], position |-> 0]]
    /\ UNCHANGED exceptAtomic

\* temp_file.write_all(content.as_bytes()): piece by piece into the file the
\* writer holds open, whatever name that file has by now
AtomicWriteAll(w) ==
    /\ atomics[w].at = "write"
    /\ LET done == atomics[w].position IN
       IF done < Len(atomics[w].content)
       THEN /\ inodes' = [inodes EXCEPT ![atomics[w].file] =
                              write_at(@, done, <<atomics[w].content[done + 1]>>)]
            /\ atomics' = [atomics EXCEPT ![w].position = done + 1]
       ELSE /\ atomics' = [atomics EXCEPT ![w].at = "sync"]
            /\ UNCHANGED inodes
    /\ UNCHANGED directory
    /\ UNCHANGED exceptAtomic

\* temp_file.sync_all(); drop(temp_file)
AtomicSyncAll(w) ==
    /\ atomics[w].at = "sync"
    /\ atomics' = [atomics EXCEPT ![w].at = "rename"]
    /\ UNCHANGED <<directory, inodes>>
    /\ UNCHANGED exceptAtomic

\* fs::rename(&temp_path, path)?; Ok(()): the file named temp_path gets the
\* final name; when there is no such name any more the call fails with
\* NotFound, which with_retry returns at once
AtomicRename(w) ==
    LET temp_path == atomics[w].temp_path IN
    /\ atomics[w].at = "rename"
    /\ IF temp_path \in DOMAIN directory
       THEN /\ directory' = rename(directory, temp_path, atomics[w].path)
            /\ atomics' = [atomics EXCEPT ![w] =
                              [@ EXCEPT !.at = "returned"] @@ [result |-> Unit]]
       ELSE /\ UNCHANGED directory
            /\ atomics' = [atomics EXCEPT ![w] =
                              [@ EXCEPT !.at = "returned"] @@ [result |-> From("NotFound")]]
    /\ UNCHANGED inodes
    /\ UNCHANGED exceptAtomic

AtomicNext ==
    \/ \E w \in AtomicIds, path \in AtomicPaths : AtomicStart(w, path)
    \/ \E w \in AtomicIds : AtomicCreate(w)
    \/ \E w \in AtomicIds : AtomicWriteAll(w)
    \/ \E w \in AtomicIds : AtomicSyncAll(w)
    \/ \E w \in AtomicIds : AtomicRename(w)

(***************************************************************************)
(* FileSystem: the paths of a task                                         *)
(***************************************************************************)

\* A task id is a u32.  It is kept in two parts, task_id = high * 10^5 + low
\* with low < 10^5, so that u32::MAX can be written.
U32(high, low) == [high |-> high, low |-> low]

U32_MAX == U32(42949, 67295)

Digit(d) == CASE d = 0 -> "0" [] d = 1 -> "1" [] d = 2 -> "2" [] d = 3 -> "3"
              [] d = 4 -> "4" [] d = 5 -> "5" [] d = 6 -> "6" [] d = 7 -> "7"
              [] d = 8 -> "8" [] d = 9 -> "9"

\* The decimal digits of n, without leading zeros
RECURSIVE Decimal(_)
Decimal(n) == IF n < 10 THEN Digit(n) ELSE Decimal(n \div 10) \o Digit(n % 10)

\* The last width decimal digits of n, with leading zeros
RECURSIVE Padded(_, _)
Padded(n, width) ==
    IF width = 0 THEN "" ELSE Padded(n \div 10, width - 1) \o Digit(n % 10)

\* impl Display for u32
to_string_u32(task_id) ==
    IF task_id.high = 0 THEN Decimal(task_id.low)
    ELSE Decimal(task_id.high) \o Padded(task_id.low, 5)

\* PathBuf::from("/host/.zzz"), as its components
ZzzRoot == <<"/", "host", ".zzz">>

\* Path::join with a relative path of one component
join(path, component) == Append(path, component)

\* Path::parent and Path::file_name
parent(path) == SubSeq(path, 1, Len(path) - 1)
file_name(path) == path[Len(path)]

get_task_directory_path(task_id) == join(ZzzRoot, "task-" \o to_string_u32(task_id))

get_todo_list_path(task_id) == join(get_task_directory_path(task_id), "todo-list.md")

get_review_path(task_id) == join(get_task_directory_path(task_id), "review.md")

\* Mutant: the plan is given the name of the review.
get_plan_path_as_review(task_id) == join(get_task_directory_path(task_id), "review.md")

get_plan_path(task_id) == join(get_task_directory_path(task_id), "plan.md")

get_logs_dir_path(task_id) == join(get_task_directory_path(task_id), "logs")

get_overseer_log_path(task_id) == join(get_logs_dir_path(task_id), "overseer.log")

get_commander_log_path(task_id) == join(get_logs_dir_path(task_id), "commander.log")

get_coordinator_log_path(task_id) == join(get_logs_dir_path(task_id), "coordinator.log")

\* The task ids asked about: those of test_task_id_edge_cases and
\* test_path_consistency, and ids whose digits are near one another's.
PathTaskIds == {U32(0, 0), U32(0, 1), U32(0, 10), U32(0, 42), U32(0, 500), U32(0, 999),
                U32(0, 1000), U32(0, 9999), U32(1, 0), U32(1, 1), U32_MAX}

PathInit == derived = <<>>

\* The eight paths of a task are derived; the paths derived before are kept
\* beside them.
DerivePaths(task_id) ==
    /\ derived' = <<[task |-> task_id,
                     task_directory |-> get_task_directory_path(task_id),
                     todo_list |-> get_todo_list_path(task_id),
                     review |-> get_review_path(task_id),
                     plan |-> get_plan_path(task_id),
                     logs_dir |-> get_logs_dir_path(task_id),
                     overseer_log |-> get_overseer_log_path(task_id),
                     commander_log |-> get_commander_log_path(task_id),
                     coordinator_log |-> get_coordinator_log_path(task_id)]>>
                  \o SubSeq(derived, 1, IF derived = <<>> THEN 0 ELSE 1)
    /\ UNCHANGED exceptPath

PathNext == \E task_id \in PathTaskIds : DerivePaths(task_id)

(***************************************************************************)
(* State: the routing methods of the plugin (main.rs)                      *)
(***************************************************************************)

\* CommunicationError::SerializationError
SerializationError == [ok |-> FALSE, error |-> "SerializationError"]

\* What is handed to log_coordinator: the words of the format string and what
\* is put into it
LogLine(text, role, about) == [text |-> text, role |-> role, about |-> about]

\* What a routing method returns and the lines it logs
Answer(returned, lines) == [returned |-> returned, lines |-> lines]

\* Mutant: the error is logged and Ok(()) returned.
state_route_message_to_role_swallowing(routed, message, target_role) ==
    IF routed.ok
    THEN Answer(Unit, <<LogLine("Successfully routed message to", target_role, message)>>)
    ELSE IF routed.error = "PaneNotFound"
    THEN Answer(Unit, <<LogLine("Pane not found for role", routed.role, message)>>)
    ELSE Answer(Unit, <<LogLine("Failed to route message to", target_role, routed)>>)

\* State::route_message_to_role: the match on what the router returned
state_route_message_to_role(routed, message, target_role) ==
    IF routed.ok
    THEN Answer(Unit, <<LogLine("Successfully routed message to", target_role, message)>>)
    ELSE IF routed.error = "PaneNotFound"
    THEN Answer(PaneNotFound(routed.role),
                <<LogLine("Pane not found for role", routed.role, message)>>)
    ELSE Answer(routed, <<LogLine("Failed to route message to", target_role, routed)>>)

\* State::route_message_to_roles: for (role, result) in &results { .. }; results
state_route_message_to_roles(results, message) ==
    Answer(results,
           [k \in DOMAIN results |->
               IF results[k].result.ok
               THEN LogLine("Successfully routed message to", results[k].role, message)
               ELSE LogLine("Failed to route message to", results[k].role,
                            results[k].result)])

\* State::broadcast_to_all_roles
state_broadcast_to_all_roles(results, message) ==
    Answer(results,
           <<[text |-> "Broadcasting message to all roles", about |-> message]>>
           \o [k \in DOMAIN results |->
                  IF results[k].result.ok
                  THEN LogLine("Broadcast successful to", results[k].role, message)
                  ELSE LogLine("Broadcast failed to", results[k].role,
                               results[k].result)])

\* Which of the n calls of log_coordinator return Ok: all, none, every
\* second one.  `let _ =` drops what they return.
LogOutcomes(n) ==
    {[k \in 1..n |-> TRUE], [k \in 1..n |-> FALSE],
     [k \in 1..n |-> k % 2 = 0], [k \in 1..n |-> k % 2 = 1]}

\* The lines whose append succeeded
RECURSIVE Kept(_, _)
Kept(lines, written) ==
    IF lines = <<>> THEN <<>>
    ELSE (IF Head(written) THEN <<Head(lines)>> ELSE <<>>)
             \o Kept(Tail(lines), Tail(written))

NoStateCall == [op |-> "none"]

StateInit ==
    /\ state_last = NoStateCall
    /\ mirrored = <<>>

StateRouteMessageToRole(message, target_role) ==
    LET done == route_message_to_role(pane_registry, message, target_role)
        answered == state_route_message_to_role(done.result, message, target_role)
    IN  \E written \in LogOutcomes(Len(answered.lines)) :
            /\ last = NoCall
            /\ state_last = NoStateCall
            /\ sent_messages' = sent_messages \o done.writes
            /\ mirrored' = mirrored \o Kept(answered.lines, written)
            /\ state_last' = [op |-> "route_message_to_role", message |-> message,
                              target_role |-> target_role, registry |-> pane_registry,
                              routed |-> done.result, returned |-> answered.returned,
                              lines |-> answered.lines, written |-> written]
            /\ UNCHANGED <<pane_registry, last>>
            /\ UNCHANGED exceptState

StateRouteMessageToRoles(message, target_roles) ==
    LET done == route_message_to_roles(pane_registry, message, target_roles)
        answered == state_route_message_to_roles(done.result, message)
    IN  \E written \in LogOutcomes(Len(answered.lines)) :
            /\ last = NoCall
            /\ state_last = NoStateCall
            /\ sent_messages' = sent_messages \o done.writes
            /\ mirrored' = mirrored \o Kept(answered.lines, written)
            /\ state_last' = [op |-> "route_message_to_roles", message |-> message,
                              target_roles |-> target_roles, registry |-> pane_registry,
                              results |-> done.result, returned_list |-> answered.returned,
                              lines |-> answered.lines, written |-> written]
            /\ UNCHANGED <<pane_registry, last>>
            /\ UNCHANGED exceptState

StateBroadcastToAllRoles(message) ==
    \E all_roles \in Orders(DOMAIN pane_registry) :
        LET done == broadcast_to_all(pane_registry, message, all_roles)
            answered == state_broadcast_to_all_roles(done.result, message)
        IN  \E written \in LogOutcomes(Len(answered.lines)) :
                /\ last = NoCall
                /\ state_last = NoStateCall
                /\ sent_messages' = sent_messages \o done.writes
                /\ mirrored' = mirrored \o Kept(answered.lines, written)
                /\ state_last' = [op |-> "broadcast_to_all_roles", message |-> message,
                                  target_roles |-> all_roles, registry |-> pane_registry,
                                  results |-> done.result,
                                  returned_list |-> answered.returned,
                                  lines |-> answered.lines, written |-> written]
                /\ UNCHANGED <<pane_registry, last>>
                /\ UNCHANGED exceptState

\* The caller has the result and goes on.
StateReturn ==
    /\ state_last # NoStateCall
    /\ state_last' = NoStateCall
    /\ mirrored' = <<>>
    /\ sent_messages' = <<>>
    /\ UNCHANGED <<pane_registry, last>>
    /\ UNCHANGED exceptState

\* The roles that get a pane before the messages are routed.
StateRoles == {"Overseer", "Commander", "TaskList"}

StateNext ==
    \/ \E role \in StateRoles, pane_id \in RegisterPaneIds :
            state_last = NoStateCall /\ RegisterPane(role, pane_id)
    \/ state_last = NoStateCall /\ Return
    \/ \E message \in RouterMessages, role \in PaneRole :
            StateRouteMessageToRole(message, role)
    \/ \E message \in RouterMessages, roles \in RoleLists :
            StateRouteMessageToRoles(message, roles)
    \/ \E message \in RouterMessages : StateBroadcastToAllRoles(message)
    \/ StateReturn

(***************************************************************************)
(* Communication: the pipe (communication/communication.rs)                *)
(***************************************************************************)

\* One call of ZellijService::pipe_message_to_plugin
PipedMessage(text, target) == [message |-> text, target |-> target]

\* What send_pipe_message returns and what it piped on the way
Piped(result, pipes) == [result |-> result, pipes |-> pipes]

\* Mutant: the coordination message is piped without its envelope.
send_pipe_message_bare(envelope) ==
    Piped(Unit, <<PipedMessage(to_string_message(envelope.coordination_message),
                               "coordination")>>)

\* Communication::send_pipe_message: serde_json::to_string(envelope)?, which
\* does not fail for a MessageEnvelope, then one pipe_message_to_plugin
send_pipe_message(envelope) ==
    Piped(Unit, <<PipedMessage(to_string_envelope(envelope), "coordination")>>)

\* The messages put into envelopes here, and who they are for and from
PipeMessages ==
    {[variant |-> "StartPlanning", task_id |-> 123, task_description |-> "Test task"],
     [variant |-> "AllTasksComplete"],
     [variant |-> "PhaseTransition", from |-> "Finished", to |-> "Initializing"]}
PipeTargets == {"test-pane", "Overseer", ""}
PipeSenders == {"test-sender", "zzz-coordinator"}

\* The send_pipe_message calls made between two looks at the transport
MaxPiped == 2

NoHandler == [event |-> "none"]

\* State::default(); file_watcher stays None and pending_notifications
\* empty, no handler touches them
PluginInit ==
    /\ state = [task_id |-> 0,
                task_description |-> "Default task description",
                current_phase |-> "Initializing",
                received_messages |-> <<>>,
                last_message |-> None,
                permissions_granted |-> FALSE,
                pane_manifest |-> None]
    /\ piped_messages = <<>>
    /\ plugin_last = NoHandler

\* communication.send_pipe_message(&envelope) with the envelope the caller
\* holds, while the clock shows sent_at
SendPipeMessage(sent_at) ==
    LET sent == send_pipe_message(built.e) IN
    /\ built.made
    /\ plugin_last.event \in {"none", "send_pipe_message"}
    /\ Len(piped_messages) < MaxPiped
    /\ piped_messages' = piped_messages \o sent.pipes
    /\ plugin_last' = [event |-> "send_pipe_message", envelope |-> built.e,
                       sent_at |-> sent_at, result |-> sent.result]
    /\ UNCHANGED <<state, routerVars, stateVars>>
    /\ UNCHANGED exceptPlugin

\* The caller has looked at what the handler returned and at what the
\* transport recorded (MockZellijService::clear).
PluginReturn ==
    /\ plugin_last # NoHandler
    /\ plugin_last' = NoHandler
    /\ piped_messages' = <<>>
    /\ sent_messages' = <<>>
    /\ mirrored' = <<>>
    /\ UNCHANGED <<state, pane_registry, last, state_last>>
    /\ UNCHANGED exceptPlugin

\* An envelope is built and sent, once or twice, with panes registered or
\* not.
PipeNext ==
    \/ \E message \in PipeMessages, target_pane \in PipeTargets, sender \in PipeSenders,
          now \in Timestamps :
            /\ plugin_last = NoHandler
            /\ NewTargeted(message, target_pane, sender, now)
    \/ \E message \in PipeMessages, sender \in PipeSenders, now \in Timestamps :
            /\ plugin_last = NoHandler
            /\ NewBroadcast(message, sender, now)
    \/ \E sent_at \in Timestamps : SendPipeMessage(sent_at)
    \/ \E role \in {"Overseer", "Commander"}, pane_id \in RegisterPaneIds :
            plugin_last = NoHandler /\ RegisterPane(role, pane_id)
    \/ plugin_last = NoHandler /\ Return
    \/ PluginReturn

(***************************************************************************)
(* State: the handlers of the plugin (main.rs)                             *)
(***************************************************************************)

\* A line handed to log_coordinator that names nobody
Line(text, about) == [text |-> text, about |-> about]

\* State::send_coordination_message: the envelope is built at time now and
\* piped; what send_pipe_message returns is returned
state_send_coordination_message(message, target_pane_title, now) ==
    LET envelope == new_targeted(message, target_pane_title, "zzz-coordinator", now)
        sent == send_pipe_message(envelope)
    IN  [returned |-> sent.result, pipes |-> sent.pipes,
         lines |-> <<LogLine("Sending message to", target_pane_title, message),
                     IF sent.result.ok
                     THEN LogLine("Successfully sent message to", target_pane_title, message)
                     ELSE LogLine("Failed to send message to", target_pane_title,
                                  sent.result)>>]

\* State::broadcast_coordination_message
state_broadcast_coordination_message(message, now) ==
    LET envelope == new_broadcast(message, "zzz-coordinator", now)
        sent == send_pipe_message(envelope)
    IN  [returned |-> sent.result, pipes |-> sent.pipes,
         lines |-> <<Line("Broadcasting message", message),
                     IF sent.result.ok
                     THEN Line("Successfully broadcast message", message)
                     ELSE Line("Failed to broadcast message", sent.result)>>]

\* What a handler did to the transports, and its log lines
Sent(writes, pipes, lines) == [writes |-> writes, pipes |-> pipes, lines |-> lines]

\* Mutant: the pipe is used beside the pane write, not instead of it.
send_start_planning_message_both(registry, task_id, task_description, now) ==
    LET start_planning_msg == [variant |-> "StartPlanning", task_id |-> task_id,
                               task_description |-> task_description]
        done == route_message_to_role(registry, start_planning_msg, "Overseer")
        fallback == state_send_coordination_message(start_planning_msg, "Overseer", now)
    IN  Sent(done.writes, fallback.pipes, fallback.lines)

\* State::send_start_planning_message: the message is routed to the Overseer
\* role; when that fails it is sent in an envelope targeted to "Overseer"
send_start_planning_message(registry, task_id, task_description, now) ==
    LET start_planning_msg == [variant |-> "StartPlanning", task_id |-> task_id,
                               task_description |-> task_description]
        done == route_message_to_role(registry, start_planning_msg, "Overseer")
        answered == state_route_message_to_role(done.result, start_planning_msg, "Overseer")
    IN  IF answered.returned.ok
        THEN Sent(done.writes, <<>>,
                  answered.lines
                  \o <<Line("Successfully sent StartPlanning message to Overseer", ""),
                       Line("Workflow phase should transition to PlanningInProgress", "")>>)
        ELSE LET fallback == state_send_coordination_message(start_planning_msg,
                                                             "Overseer", now)
             IN  Sent(done.writes, fallback.pipes,
                      answered.lines
                      \o <<Line("Failed to send StartPlanning message to Overseer",
                                answered.returned)>>
                      \o fallback.lines
                      \o <<IF fallback.returned.ok
                           THEN Line("Successfully sent StartPlanning via direct pane targeting", "")
                           ELSE Line("Both routing methods failed", fallback.returned)>>)

\* State::discover_and_register_panes with the manifest scanned in the order
\* the map yields its tabs
discover_and_register_panes(registry, scan) ==
    LET done == discover_panes_with_manifest(registry, scan) IN
    [registry |-> done.registry,
     lines |-> <<Line("Attempting to discover panes...", ""),
                 IF done.result.ok
                 THEN Line("Pane discovery completed successfully. Found panes",
                           DOMAIN done.registry)
                 ELSE Line("Pane discovery failed", done.result)>>]

\* Mutant: the first manifest with a role starts the planning, permissions
\* or not.
start_planning_due_without_permissions(permissions_granted, registered_roles) ==
    registered_roles # {}

\* update, Event::PaneUpdate:
\* if self.permissions_granted && !self.get_registered_roles().is_empty()
start_planning_due(permissions_granted, registered_roles) ==
    permissions_granted /\ registered_roles # {}

\* What the handlers show as the last message: an envelope or a message
\* received from a source, or a text
DisplayEnvelope(kind, source, envelope) ==
    [kind |-> kind, source |-> source, envelope |-> envelope]

DisplayMessage(source, message) ==
    [kind |-> "Legacy", source |-> source, message |-> message]

DisplayText(kind, source, text) == [kind |-> kind, source |-> source, text |-> text]

\* What a handler of an incoming message leaves: the state, its log lines
\* and what it returns
Handled(st, lines, returned) == [state |-> st, lines |-> lines, returned |-> returned]

\* State::handle_envelope_message
handle_envelope_message(st, envelope, source) ==
    Handled([st EXCEPT
                !.received_messages = Append(@, envelope.coordination_message),
                !.last_message = Some(DisplayEnvelope(IF envelope.target_pane.some
                                                      THEN "Envelope" ELSE "Broadcast",
                                                      source, envelope))],
            <<LogLine("Received envelope from", source, envelope)>>, TRUE)

\* State::handle_legacy_message
handle_legacy_message(st, message, source) ==
    Handled([st EXCEPT !.received_messages = Append(@, message),
                       !.last_message = Some(DisplayMessage(source, message))],
            <<LogLine("Received legacy message from", source, message)>>, TRUE)

\* State::handle_raw_message
handle_raw_message(st, text, source) ==
    Handled([st EXCEPT !.last_message = Some(DisplayText("Raw", source, text))],
            <<LogLine("Received raw message from", source, text)>>, TRUE)

\* The match of handle_incoming_message on what the text was parsed to
handle_parsed(st, incoming, text, source) ==
    IF incoming.ok /\ incoming.kind = "Envelope"
    THEN handle_envelope_message(st, incoming.envelope, source)
    ELSE IF incoming.ok
    THEN handle_legacy_message(st, incoming.message, source)
    ELSE handle_raw_message(st, text, source)

\* The transition claimed by the message a handler has just recorded, carried
\* out
Carried(st, handled) ==
    LET received == handled.state.received_messages IN
    IF Len(received) > Len(st.received_messages)
       /\ received[Len(received)].variant = "PhaseTransition"
    THEN [handled EXCEPT !.state.current_phase = received[Len(received)].to]
    ELSE handled

\* Mutant: a PhaseTransition that is received is carried out.
handle_incoming_message_transition(st, text, source) ==
    Carried(st, handle_parsed(st, parse_incoming_message(text), text, source))

\* State::handle_incoming_message
handle_incoming_message(st, text, source) ==
    handle_parsed(st, parse_incoming_message(text), text, source)

\* ZellijPlugin::pipe: the source is named (the sending plugin has the id 1),
\* a message without payload is shown or dropped
pipe(st, source, text) ==
    IF text.some
    THEN handle_incoming_message(st, text.v,
                                 IF source = "Cli" THEN "CLI"
                                 ELSE IF source = "Plugin" THEN "Plugin-1" ELSE "Keybind")
    ELSE IF source = "Plugin"
    THEN Handled([st EXCEPT !.last_message =
                                Some(DisplayText("Empty", "Plugin-1",
                                                 "Received empty message from plugin"))],
                 <<>>, TRUE)
    ELSE IF source = "Keybind"
    THEN Handled([st EXCEPT !.last_message =
                                Some(DisplayText("Empty", "Keybind",
                                                 "Received keybind trigger"))],
                 <<>>, TRUE)
    ELSE Handled(st, <<>>, FALSE)

\* str::parse::<u32> of a text of at most nine characters: an optional plus
\* sign and decimal digits, at least one
RECURSIVE ValueOf(_)
ValueOf(digits) ==
    IF digits = <<>> THEN 0
    ELSE 10 * ValueOf(SubSeq(digits, 1, Len(digits) - 1))
         + (CHOOSE d \in 0 .. 9 : Digit(d) = digits[Len(digits)])

parse_u32(text) ==
    LET digits == IF text # <<>> /\ text[1] = "+" THEN Tail(text) ELSE text IN
    IF digits = <<>> \/ \E i \in DOMAIN digits : digits[i] \notin {Digit(d) : d \in 0 .. 9}
    THEN [ok |-> FALSE, error |-> "ParseIntError"]
    ELSE [ok |-> TRUE, v |-> ValueOf(digits)]

\* The handler logs lines; each log_coordinator call may fail, and what it
\* returns is dropped.
Logs(lines) ==
    \E written \in LogOutcomes(Len(lines)) :
        mirrored' = mirrored \o Kept(lines, written)

\* ZellijPlugin::load: task_id and task_description are taken from the
\* configuration; the permissions are requested, the events subscribed to
\* and the task's files ensured, with ensured what ensure_task_files_exist
\* returns (FileSystem's calls are the store's operations above).  The host
\* loads the plugin before it sends it any event.
Load(configuration, ensured) ==
    LET given == configuration.task_id
        number == IF given.some THEN parse_u32(given.v) ELSE [ok |-> FALSE]
        described == configuration.task_description
    IN  /\ plugin_last = NoHandler
        /\ ~state.permissions_granted
        /\ ~state.pane_manifest.some
        /\ state' = [state EXCEPT
                        !.task_id = IF number.ok THEN number.v ELSE @,
                        !.task_description = IF described.some THEN described.v ELSE @]
        /\ Logs((IF ~given.some THEN <<>>
                 ELSE IF number.ok
                 THEN <<Line("Loaded task_id from configuration", number.v)>>
                 ELSE <<Line("Warning: Invalid task_id in configuration", given.v)>>)
                \o (IF described.some
                    THEN <<Line("Loaded task_description from configuration", described.v)>>
                    ELSE <<>>)
                \o <<IF ensured.ok
                     THEN Line("Successfully created task directories for task", "")
                     ELSE Line("CRITICAL: Failed to create task directories for task",
                               ensured)>>)
        /\ plugin_last' = [event |-> "load", configuration |-> configuration]
        /\ UNCHANGED <<piped_messages, routerVars, state_last>>
        /\ UNCHANGED exceptPlugin

\* update, Event::PermissionRequestResult: the flag is set whatever the
\* status says
UpdatePermissionRequestResult(status) ==
    /\ plugin_last = NoHandler
    /\ state' = [state EXCEPT !.permissions_granted = TRUE]
    /\ Logs(<<Line("Permission result received", status)>>
            \o (IF ~state.permissions_granted
                THEN <<Line("All permissions granted, waiting for pane manifest...", "")>>
                ELSE <<>>))
    /\ plugin_last' = [event |-> "PermissionRequestResult", status |-> status,
                       returned |-> TRUE]
    /\ UNCHANGED <<piped_messages, routerVars, state_last>>
    /\ UNCHANGED exceptPlugin

\* update, Event::PaneUpdate: the manifest is kept, the panes are discovered
\* again, and the planning is started when it is due
UpdatePaneUpdate(manifest, now) ==
    \E tabs \in Orders(DOMAIN manifest.panes) :
        LET found == discover_and_register_panes(pane_registry,
                                                 Scan(manifest.panes, tabs))
            due == start_planning_due(state.permissions_granted, DOMAIN found.registry)
            started == IF due
                       THEN send_start_planning_message(found.registry, state.task_id,
                                                        state.task_description, now)
                       ELSE Sent(<<>>, <<>>, <<>>)
        IN  /\ plugin_last = NoHandler
            /\ last = NoCall
            /\ state' = [state EXCEPT !.pane_manifest = Some(manifest)]
            /\ pane_registry' = found.registry
            /\ sent_messages' = sent_messages \o started.writes
            /\ piped_messages' = piped_messages \o started.pipes
            /\ Logs(<<Line("Received pane manifest update, attempting pane discovery...", "")>>
                    \o found.lines \o started.lines)
            /\ plugin_last' = [event |-> "PaneUpdate", manifest |-> manifest,
                               now |-> now, returned |-> TRUE]
            /\ UNCHANGED <<last, state_last>>
            /\ UNCHANGED exceptPlugin

\* update, Event::TabUpdate
UpdateTabUpdate ==
    /\ plugin_last = NoHandler
    /\ Logs(<<Line("Tab update received, pane manifest may be outdated", "")>>)
    /\ plugin_last' = [event |-> "TabUpdate", returned |-> TRUE]
    /\ UNCHANGED <<state, piped_messages, routerVars, state_last>>
    /\ UNCHANGED exceptPlugin

\* update, any other event: _ => false
UpdateOther ==
    /\ plugin_last = NoHandler
    /\ plugin_last' = [event |-> "Other", returned |-> FALSE]
    /\ UNCHANGED <<state, piped_messages, routerVars, stateVars>>
    /\ UNCHANGED exceptPlugin

\* The messages a plugin gets and sends hold at most so many entries.
MaxReceived == 2

\* The plugin takes what the handler of a piped message leaves
PipeHandled(source, text, handled) ==
    /\ state' = handled.state
    /\ Logs(handled.lines)
    /\ plugin_last' = [event |-> "pipe", source |-> source, text |-> text,
                       returned |-> handled.returned]

\* ZellijPlugin::pipe
Pipe(source, text) ==
    /\ plugin_last = NoHandler
    /\ Len(state.received_messages) < MaxReceived
    /\ PipeHandled(source, text, pipe(state, source, text))
    /\ UNCHANGED <<piped_messages, routerVars, state_last>>
    /\ UNCHANGED exceptPlugin

\* State::send_coordination_message called with the clock at now
StateSendCoordinationMessage(message, target_pane_title, now) ==
    LET sent == state_send_coordination_message(message, target_pane_title, now) IN
    /\ plugin_last = NoHandler
    /\ piped_messages' = piped_messages \o sent.pipes
    /\ Logs(sent.lines)
    /\ plugin_last' = [event |-> "send_coordination_message", message |-> message,
                       result |-> sent.returned]
    /\ UNCHANGED <<state, routerVars, state_last>>
    /\ UNCHANGED exceptPlugin

\* State::broadcast_coordination_message called with the clock at now
StateBroadcastCoordinationMessage(message, now) ==
    LET sent == state_broadcast_coordination_message(message, now) IN
    /\ plugin_last = NoHandler
    /\ piped_messages' = piped_messages \o sent.pipes
    /\ Logs(sent.lines)
    /\ plugin_last' = [event |-> "broadcast_coordination_message", message |-> message,
                       result |-> sent.returned]
    /\ UNCHANGED <<state, routerVars, state_last>>
    /\ UNCHANGED exceptPlugin

\* The configurations the plugin is loaded with: no task, task 123, task 7
\* written with a sign, a task id that is no number
Configurations ==
    [task_id : {None, Some(<<"1", "2", "3">>), Some(<<"+", "7">>), Some(<<"x">>)},
     task_description : {None, Some("Test task")}]

\* The layouts the plugin is told of
PluginManifests ==
    {EmptyManifest, MockManifest} \cup TwoTabManifests
    \cup {[panes |-> (0 :> tab)] : tab \in UNION {TabsOf(n) : n \in 0 .. 1}}

\* The plugin through its events
PluginNext ==
    \/ \E configuration \in Configurations, ensured \in {Unit, PermissionDenied} :
            Load(configuration, ensured)
    \/ \E status \in {"Granted", "Denied"} : UpdatePermissionRequestResult(status)
    \/ \E manifest \in PluginManifests, now \in ClockValues : UpdatePaneUpdate(manifest, now)
    \/ UpdateTabUpdate
    \/ UpdateOther
    \/ PluginReturn

\* The transitions claimed by the messages the plugin gets and sends: a step
\* forward, a phase skipped, a step back, a phase kept, and between them
\* every phase
PhasePairs ==
    {<<"Initializing", "PlanningInProgress">>, <<"Initializing", "Finished">>,
     <<"Finished", "Initializing">>, <<"PlanReady", "PlanReady">>,
     <<"ReviewComplete", "ImplementationInProgress">>,
     <<"ImplementationComplete", "ReviewInProgress">>}

PhaseTransitions ==
    {[variant |-> "PhaseTransition", from |-> pair[1], to |-> pair[2]] : pair \in PhasePairs}

\* The payloads piped to the plugin: a message, bare or in an envelope,
\* targeted or broadcast, or a text that is no message; or none
PhasePayloads ==
    LET messages == PhaseTransitions
                    \cup {[variant |-> "StartPlanning", task_id |-> 123,
                           task_description |-> "Test task"]}
    IN  {Some(to_string_message(message)) : message \in messages}
        \cup {Some(to_string_envelope(new_targeted(message, "Overseer", "test-sender", 0))) :
                message \in PhaseTransitions}
        \cup {Some(to_string_envelope(new_broadcast(message, "test-sender", 0))) :
                message \in PhaseTransitions}
        \cup {Some(<<Bad("not"), Ws, Bad("json")>>), None}

\* The plugin through its events, the messages piped to it and the messages
\* it sends
PhaseNext ==
    \/ \E source \in {"Cli", "Plugin", "Keybind"}, text \in PhasePayloads : Pipe(source, text)
    \/ \E message \in PhaseTransitions, now \in ClockValues :
            \/ StateSendCoordinationMessage(message, "Overseer", now)
            \/ StateBroadcastCoordinationMessage(message, now)
    \/ \E status \in {"Granted", "Denied"} : UpdatePermissionRequestResult(status)
    \/ \E manifest \in {EmptyManifest, MockManifest}, now \in ClockValues :
            UpdatePaneUpdate(manifest, now)
    \/ UpdateTabUpdate
    \/ UpdateOther
    \/ PluginReturn

\* The log is written to by log_to_file only.
LogNext ==
    \/ \E path \in LogPaths, message \in LogMessages, now \in ClockValues :
            LogToFile(path, message, now)
    \/ LoopHead
    \/ \E kind \in IoErrorKinds, time \in StoreTimes : StepFails(kind, time)
    \/ OpenAppend
    \/ AppendAll
    \/ \E time \in StoreTimes : AppendSync(time)
    \/ FsReturn

Init ==
    /\ CodecInit /\ RouterInit /\ MatchInit /\ EnvelopeInit /\ FsInit
    /\ WriterInit
    /\ PathInit
    /\ StateInit
    /\ AtomicInit
    /\ PluginInit

Next ==
    \/ CodecNext
    \/ \E role \in PaneRole, pane_id \in RegisterPaneIds \cup {Terminal(42)} :
            RegisterPane(role, pane_id)
    \/ \E message \in RouterMessages, role \in PaneRole : RouteMessageToRole(message, role)
    \/ \E command \in Commands, role \in PaneRole : ExecuteCommandInRole(command, role)
    \/ \E message \in RouterMessages, roles \in RoleLists : RouteMessageToRoles(message, roles)
    \/ \E message \in RouterMessages : BroadcastToAll(message)
    \/ \E pane_manifest \in Manifests : DiscoverPanes(pane_manifest)
    \/ Return
    \/ MatchNext
    \/ EnvelopeNext
    \/ FsNext
    \/ StoreNext
    \/ LogNext
    \/ WriterNext
    \/ PathNext
    \/ StateNext
    \/ AtomicNext
    \/ PipeNext
    \/ PluginNext
    \/ PhaseNext

Spec == Init /\ [][Next]_vars
SpecCodec == Init /\ [][CodecNext]_vars
SpecRouter == Init /\ [][RouterNext]_vars
SpecDiscover == Init /\ [][DiscoverNext]_vars
SpecRegistry == Init /\ [][RegistryNext]_vars
SpecMatch == Init /\ [][MatchNext]_vars
SpecEnvelope == Init /\ [][EnvelopeNext]_vars
SpecFs == Init /\ [][FsNext]_vars
SpecStore == Init /\ [][StoreNext]_vars
SpecLog == Init /\ [][LogNext]_vars
SpecWriters == Init /\ [][WriterNext]_vars
SpecPaths == Init /\ [][PathNext]_vars
SpecState == Init /\ [][StateNext]_vars
SpecAtomic == Init /\ [][AtomicNext]_vars
SpecPipe == Init /\ [][PipeNext]_vars
SpecPlugin == Init /\ [][PluginNext]_vars
SpecPhase == Init /\ [][PhaseNext]_vars

\* A step of the call in progress: the head of the loop, a step of the
\* operation, its end.  The caller's thread runs the call on (the operation
\* is called synchronously, and every single attempt returns).
CallStep ==
    \/ LoopHead
    \/ \E kind \in IoErrorKinds, time \in StoreTimes : StepFails(kind, time)
    \/ OpenAppend
    \/ AppendAll
    \/ \E time \in StoreTimes : AppendSync(time)
    \/ CreateTemp
    \/ WriteAll
    \/ SyncAll
    \/ \E time \in StoreTimes : Rename(time)
    \/ \E time \in StoreTimes : ReadToString(time)
    \/ \E result \in {Unit} \cup OperationErrors, time \in StoreTimes :
            Operation(result, time)

SpecStoreFair == SpecStore /\ WF_vars(CallStep)

(***************************************************************************)
(* Properties of the codec (SpecCodec)                                     *)
(***************************************************************************)

\* The five texts named as undecodable.
FailingExamples ==
    {<<>>, <<Ws, Ws>>, <<Lit("not"), Ws, Lit("json")>>, <<Lit("null")>>, Array123}

\* C1: parse_incoming answers Envelope(e) when the envelope decoding of the
\* text succeeds; otherwise Legacy(m) when the legacy decoding succeeds;
\* otherwise it fails with the error of the envelope attempt.  The empty
\* text, whitespace, "not json", "null" and "[1,2,3]" all fail.
C1_ParseIncomingOrder ==
    pc = "parsed" =>
        LET envelope == from_str_envelope(payload)
            message == from_str_message(payload)
        IN /\ envelope.ok => parsed = ParsedEnvelope(envelope.v)
           /\ (~envelope.ok /\ message.ok) => parsed = ParsedLegacy(message.v)
           /\ (~envelope.ok /\ ~message.ok) =>
                  /\ ~parsed.ok
                  /\ parsed.err = envelope.err
           /\ payload \in FailingExamples => ~parsed.ok

\* "null" was parsed: both decodings fail, with different errors.
C1_Witness ==
    /\ pc = "parsed"
    /\ payload = <<Lit("null")>>
    /\ ~parsed.ok
    /\ ~from_str_message(payload).ok
    /\ from_str_message(payload).err # from_str_envelope(payload).err

\* C2: the encoding of an envelope parses as Envelope(e) with the same
\* envelope and never as Legacy; the encoding of a bare message of any of the
\* nine variants parses as Legacy(m) with the same message and never as
\* Envelope.
C2_ParseRoundTrip ==
    pc = "parsed" =>
        /\ origin.kind = "envelope" =>
               /\ parsed.ok
               /\ parsed.kind = "Envelope"
               /\ parsed = ParsedEnvelope(origin.envelope)
        /\ origin.kind = "legacy" =>
               /\ parsed.ok
               /\ parsed.kind = "Legacy"
               /\ parsed = ParsedLegacy(origin.message)

\* A bare message with fields went through the fallback.
C2_Witness ==
    /\ pc = "parsed"
    /\ origin.kind = "legacy"
    /\ origin.message.variant = "PhaseTransition"
    /\ parsed.ok
    /\ parsed.kind = "Legacy"

\* C3: decoding the encoding of an envelope gives an envelope equal to the
\* original in target, message, sender and timestamp.
C3_EnvelopeRoundTrip ==
    (pc # "idle" /\ origin.kind = "envelope") =>
        LET decoded == from_str_envelope(payload) IN
        /\ decoded.ok
        /\ decoded.v.target_pane = origin.envelope.target_pane
        /\ decoded.v.coordination_message = origin.envelope.coordination_message
        /\ decoded.v.sender = origin.envelope.sender
        /\ decoded.v.timestamp = origin.envelope.timestamp
        /\ decoded.v = origin.envelope

\* A targeted envelope with a late timestamp was encoded and decoded.
C3_Witness ==
    /\ pc = "parsed"
    /\ origin.kind = "envelope"
    /\ origin.envelope.target_pane.some
    /\ origin.envelope.timestamp = 1700000000
    /\ origin.envelope.coordination_message.variant = "StartPlanning"
    /\ parsed.ok
    /\ parsed.kind = "Envelope"

(***************************************************************************)
(* Properties of delivery (SpecRouter)                                     *)
(***************************************************************************)

OkCount(results) == Cardinality({i \in DOMAIN results : results[i].result.ok})

\* C4: routing to a role with no registered endpoint fails with
\* PaneNotFound(role) and writes nothing.
C4_RouteUnregistered ==
    (last.op = "route_message_to_role" /\ last.target_role \notin DOMAIN pane_registry) =>
        /\ last.result = PaneNotFound(last.target_role)
        /\ sent_messages = <<>>

\* Other roles are registered, the addressed one is not.
C4_Witness ==
    /\ last.op = "route_message_to_role"
    /\ last.target_role \notin DOMAIN pane_registry
    /\ DOMAIN pane_registry # {}
    /\ ~last.result.ok

\* C5: routing to a registered role succeeds and makes exactly one write, to
\* the endpoint registered for the role, carrying the encoded message.
C5_RouteRegistered ==
    (last.op = "route_message_to_role" /\ last.target_role \in DOMAIN pane_registry) =>
        /\ last.result = Unit
        /\ Len(sent_messages) = 1
        /\ sent_messages[1].pane_id = pane_registry[last.target_role]
        /\ sent_messages[1].message = to_string_message(last.message)
        /\ from_str_message(sent_messages[1].message) = Ok(last.message)

\* The addressed role is registered, and so is another role with another
\* endpoint.
C5_Witness ==
    /\ last.op = "route_message_to_role"
    /\ last.target_role \in DOMAIN pane_registry
    /\ \E role \in DOMAIN pane_registry :
           pane_registry[role] # pane_registry[last.target_role]
    /\ Len(sent_messages) = 1
    /\ last.message.variant = "StartPlanning"

\* C6: route_to_roles returns one result per listed role, in the order of the
\* list; each is what route_to_role gives for that role alone, whatever the
\* other roles gave.  The number of Ok results, the number of writes and the
\* number of registered entries of the list are equal and are the same for
\* every order of the list.  With Overseer and Commander registered, the list
\* Overseer, Commander, TaskList gives two Ok, one PaneNotFound(TaskList) and
\* two writes.
C6_RouteToRoles ==
    last.op = "route_message_to_roles" =>
        LET roles == last.target_roles
            results == last.results
            registered == {i \in DOMAIN roles : roles[i] \in DOMAIN pane_registry}
        IN /\ Len(results) = Len(roles)
           /\ \A i \in DOMAIN roles :
                  /\ results[i].role = roles[i]
                  /\ results[i].result =
                         route_message_to_role(pane_registry, last.message, roles[i]).result
                  /\ results[i].result =
                         IF roles[i] \in DOMAIN pane_registry
                         THEN Unit ELSE PaneNotFound(roles[i])
           /\ OkCount(results) = Cardinality(registered)
           /\ Len(sent_messages) = Cardinality(registered)
           /\ \A order \in Orders(DOMAIN roles) :
                  LET again == route_message_to_roles(pane_registry, last.message,
                                   [i \in DOMAIN roles |-> roles[order[i]]])
                  IN /\ OkCount(again.result) = OkCount(results)
                     /\ Len(again.writes) = Len(sent_messages)
           /\ (DOMAIN pane_registry = {"Overseer", "Commander"}
                 /\ roles = <<"Overseer", "Commander", "TaskList">>) =>
                  /\ OkCount(results) = 2
                  /\ results[3].result = PaneNotFound("TaskList")
                  /\ Len(sent_messages) = 2

\* The unregistered role comes first and the two registered ones are still
\* served.
C6_Witness ==
    /\ last.op = "route_message_to_roles"
    /\ DOMAIN pane_registry = {"Overseer", "Commander"}
    /\ last.target_roles = <<"TaskList", "Overseer", "Commander">>
    /\ ~last.results[1].result.ok
    /\ Len(sent_messages) = 2

\* The endpoints the registry holds.
RegisteredEndpoints == {pane_registry[role] : role \in DOMAIN pane_registry}

WritesTo(pane_id) == Cardinality({i \in DOMAIN sent_messages : sent_messages[i].pane_id = pane_id})

\* C7 as stated: a broadcast returns one Ok per registered role and no other
\* result, makes exactly one write to each registered endpoint, and on an
\* empty registry returns the empty list without writing.
C7_AsStated ==
    last.op = "broadcast_to_all" =>
        /\ Len(last.results) = Cardinality(DOMAIN pane_registry)
        /\ {last.results[i].role : i \in DOMAIN last.results} = DOMAIN pane_registry
        /\ \A i \in DOMAIN last.results : last.results[i].result = Unit
        /\ \A pane_id \in RegisteredEndpoints : WritesTo(pane_id) = 1
        /\ pane_registry = EmptyRegistry => (last.results = <<>> /\ sent_messages = <<>>)

\* C7: a broadcast is route_to_roles over a list of every registered role
\* exactly once: it returns one Ok per registered role and no other result
\* and makes exactly one write per registered role, to the endpoint of that
\* role, so that an endpoint registered under several roles is written once
\* for each of them; on an empty registry it returns the empty list without
\* writing.
C7_Broadcast ==
    last.op = "broadcast_to_all" =>
        LET results == last.results
            all_roles == [i \in DOMAIN results |-> results[i].role]
            routed == route_message_to_roles(pane_registry, last.message, all_roles)
        IN /\ Len(results) = Cardinality(DOMAIN pane_registry)
           /\ {all_roles[i] : i \in DOMAIN all_roles} = DOMAIN pane_registry
           /\ \A i \in DOMAIN results : results[i].result = Unit
           /\ results = routed.result
           /\ sent_messages = routed.writes
           /\ Len(sent_messages) = Len(results)
           /\ \A i \in DOMAIN results :
                  sent_messages[i] = Write(to_string_message(last.message),
                                           pane_registry[all_roles[i]])
           /\ \A pane_id \in RegisteredEndpoints :
                  WritesTo(pane_id) =
                      Cardinality({role \in DOMAIN pane_registry :
                                       pane_registry[role] = pane_id})
           /\ pane_registry = EmptyRegistry => (results = <<>> /\ sent_messages = <<>>)

\* Three roles are registered, two of them under one endpoint.
C7_Witness ==
    /\ last.op = "broadcast_to_all"
    /\ Cardinality(DOMAIN pane_registry) = 3
    /\ Cardinality(RegisteredEndpoints) = 2
    /\ Len(sent_messages) = 3

(***************************************************************************)
(* Properties of discovery (SpecDiscover)                                  *)
(***************************************************************************)

\* The entries of an inventory, whatever the order of its tabs.
Entries(pane_manifest) ==
    UNION {{pane_manifest.panes[tab][i] : i \in DOMAIN pane_manifest.panes[tab]} :
              tab \in DOMAIN pane_manifest.panes}

Matches(pane_info, role) == match_pane_name_to_role(pane_info.title) = SomeRole(role)

\* The endpoint an entry stands for: its kind and its id.
EndpointOf(pane_info) ==
    IF pane_info.is_plugin THEN Plugin(pane_info.id) ELSE Terminal(pane_info.id)

\* C8: discovery fails with DiscoveryFailed exactly when no entry of the
\* inventory matches a role, the empty inventory included, and the registry
\* is then empty whatever it held; otherwise it succeeds and the registry is
\* not empty.
C8_DiscoverResult ==
    last.op = "discover_panes_with_manifest" =>
        LET none == \A pane_info \in Entries(last.pane_manifest) :
                        \A role \in PaneRole : ~Matches(pane_info, role)
        IN /\ (last.result = PaneDiscoveryFailed) <=> none
           /\ none => pane_registry = EmptyRegistry
           /\ ~none => (last.result = Unit /\ pane_registry # EmptyRegistry)
           /\ last.pane_manifest = EmptyManifest => last.result = PaneDiscoveryFailed

\* The registry held something, the inventory has entries, none matches.
C8_Witness ==
    /\ last.op = "discover_panes_with_manifest"
    /\ last.before # {}
    /\ Entries(last.pane_manifest) # {}
    /\ last.result = PaneDiscoveryFailed
    /\ pane_registry = EmptyRegistry

\* The registry of the five-pane example.
MockRegistry ==
    ("Overseer" :> Plugin(1)) @@ ("Commander" :> Terminal(2)) @@ ("TaskList" :> Plugin(3))
    @@ ("Review" :> Plugin(4)) @@ ("Editor" :> Terminal(5))

\* C9: after discovery a role is registered exactly when some entry of the
\* inventory matches it, and its endpoint is that of a matching entry: plugin
\* or terminal as the entry says, with the id of the entry.  Nothing of an
\* earlier discovery or registration is left.  The five-pane inventory gives
\* Overseer -> Plugin(1), Commander -> Terminal(2), TaskList -> Plugin(3),
\* Review -> Plugin(4), Editor -> Terminal(5).
C9_DiscoverRegistry ==
    last.op = "discover_panes_with_manifest" =>
        /\ \A role \in PaneRole :
               LET matching == {pane_info \in Entries(last.pane_manifest) :
                                    Matches(pane_info, role)}
               IN /\ role \in DOMAIN pane_registry <=> matching # {}
                  /\ role \in DOMAIN pane_registry =>
                         pane_registry[role] \in {EndpointOf(pane_info) : pane_info \in matching}
        /\ last.pane_manifest = MockManifest => pane_registry = MockRegistry

\* A role registered by hand is gone, another registered by hand has the
\* endpoint of the inventory, a plugin.
C9_Witness ==
    /\ last.op = "discover_panes_with_manifest"
    /\ last.before = {"Overseer", "Editor"}
    /\ DOMAIN pane_registry = {"Overseer"}
    /\ pane_registry["Overseer"] = Plugin(1)

\* The positions of the scan that match a role.
MatchingAt(scan, role) == {i \in DOMAIN scan : Matches(scan[i], role)}

Last(S) == CHOOSE i \in S : \A j \in S : j <= i

\* C10: when several entries of one pass match a role, the role has the
\* endpoint of the last of them in the order of the pass, and the call
\* succeeds.
C10_LastMatchWins ==
    last.op = "discover_panes_with_manifest" =>
        \A role \in PaneRole :
            LET at == MatchingAt(last.scan, role) IN
            Cardinality(at) >= 2 =>
                /\ last.result = Unit
                /\ role \in DOMAIN pane_registry
                /\ pane_registry[role] = EndpointOf(last.scan[Last(at)])

\* Two entries with different endpoints match one role.
C10_Witness ==
    /\ last.op = "discover_panes_with_manifest"
    /\ \E role \in PaneRole :
           LET at == MatchingAt(last.scan, role) IN
           /\ Cardinality(at) >= 2
           /\ \E i \in at : EndpointOf(last.scan[i]) # EndpointOf(last.scan[Last(at)])
           /\ pane_registry[role] = EndpointOf(last.scan[Last(at)])

(***************************************************************************)
(* Properties of the matching of titles (SpecMatch, SpecDiscover)          *)
(***************************************************************************)

\* The keyword sets as they are documented.
DocumentedKeywords(role) ==
    CASE role = "Overseer" -> {KwOverseer}
      [] role = "Commander" -> {KwCommander}
      [] role = "TaskList" -> {KwTaskList, KwTasklistJoined, KwTaskListDash,
                               KwTaskListUnderscore}
      [] role = "Review" -> {KwReview}
      [] role = "Editor" -> {KwEditor}

DocumentedHits(title) ==
    {role \in PaneRole :
        \E keyword \in DocumentedKeywords(role) : contains(to_lowercase(title), keyword)}

\* C11: a title is matched without regard to case by substring: "overseer"
\* gives Overseer, "commander" Commander, any of "task list", "tasklist",
\* "task-list", "task_list" TaskList, "review" Review, "editor" Editor, and a
\* title with none of them gives no role.  (Which role a title with keywords
\* of several roles gets is left open here.)
C11_DocumentedKeywords ==
    pane_name # NoName =>
        LET hits == DocumentedHits(pane_name) IN
        /\ hits = {} => matched = NoRole
        /\ hits # {} => (matched.some /\ matched.role \in hits)

\* The keyword the router looks for, role by role.
RouterKeyword(role) ==
    CASE role = "Overseer" -> KwOverseer
      [] role = "Commander" -> KwCommander
      [] role = "TaskList" -> KwTaskList
      [] role = "Review" -> KwReview
      [] role = "Editor" -> KwEditor

Priority == <<"Overseer", "Commander", "TaskList", "Review", "Editor">>

RouterHits(title) ==
    {i \in DOMAIN Priority : contains(to_lowercase(title), RouterKeyword(Priority[i]))}

First(S) == CHOOSE i \in S : \A j \in S : i <= j

\* The entries of a pass that match a role, in the order of the pass.
RECURSIVE Matching(_)
Matching(scan) ==
    IF scan = <<>> THEN <<>>
    ELSE IF match_pane_name_to_role(Head(scan).title).some
         THEN <<Head(scan)>> \o Matching(Tail(scan))
         ELSE Matching(Tail(scan))

\* C12: a title with keywords of several roles gets the first of them in the
\* order Overseer, Commander, TaskList, Review, Editor ("commander" and
\* "review" together give Commander); so an entry of the inventory is
\* registered under at most one role, and an entry that matches nothing is
\* skipped and leaves the registry as it would be without it.
C12_PriorityOrder ==
    last.op = "discover_panes_with_manifest" =>
        /\ \A i \in DOMAIN last.scan :
               LET title == last.scan[i].title
                   hits == RouterHits(title)
               IN /\ hits = {} => match_pane_name_to_role(title) = NoRole
                  /\ hits # {} =>
                         match_pane_name_to_role(title) = SomeRole(Priority[First(hits)])
                  /\ (contains(to_lowercase(title), KwCommander)
                        /\ contains(to_lowercase(title), KwReview)
                        /\ ~contains(to_lowercase(title), KwOverseer)) =>
                         match_pane_name_to_role(title) = SomeRole("Commander")
        /\ \A pane_info \in Entries(last.pane_manifest) :
               Cardinality({role \in DOMAIN pane_registry :
                                pane_registry[role] = EndpointOf(pane_info)}) <= 1
        /\ pane_registry =
               discover_panes_with_manifest(EmptyRegistry, Matching(last.scan)).registry

\* A pane titled with "commander" and "review" is registered as Commander
\* only, and the pane beside it, which matches nothing, is not registered.
C12_Witness ==
    /\ last.op = "discover_panes_with_manifest"
    /\ Len(last.scan) = 2
    /\ contains(to_lowercase(last.scan[1].title), KwReview)
    /\ contains(to_lowercase(last.scan[1].title), KwCommander)
    /\ match_pane_name_to_role(last.scan[2].title) = NoRole
    /\ DOMAIN pane_registry = {"Commander"}
    /\ pane_registry["Commander"] = EndpointOf(last.scan[1])

(***************************************************************************)
(* Properties of the registry and of raw commands (SpecRouter)             *)
(***************************************************************************)

\* C13: register is an unconditional upsert.  The registry starts empty and
\* only register changes it; after a register the role has the endpoint just
\* given, whatever it had, and every other role has what it had before or is
\* still absent.  So a lookup gives the endpoint of the latest register of
\* the role, or nothing when there was none.
C13_RegisterUpsert ==
    /\ pane_registry = EmptyRegistry
    /\ [](last.op = "register_pane" =>
            /\ get_pane_id(pane_registry, last.role) = SomePaneId(last.pane_id)
            /\ \A other \in PaneRole \ {last.role} :
                   get_pane_id(pane_registry, other)
                       = get_pane_id(last.registry_before, other))
    /\ [][last'.op # "register_pane" => pane_registry' = pane_registry]_vars

\* A role changes its endpoint to the one another role holds, and that role
\* keeps it.
C13_Witness ==
    /\ last.op = "register_pane"
    /\ last.role \in DOMAIN last.registry_before
    /\ last.registry_before[last.role] # last.pane_id
    /\ pane_registry[last.role] = last.pane_id
    /\ \E other \in DOMAIN pane_registry \ {last.role} :
           pane_registry[other] = last.pane_id
    /\ \E role \in PaneRole : ~get_pane_id(pane_registry, role).some

\* C14: execute_raw writes the command as it is, not encoded, in exactly one
\* write to the endpoint registered for the role and succeeds; for a role
\* that is not registered it fails with PaneNotFound(role) and writes nothing.
C14_ExecuteRaw ==
    last.op = "execute_command_in_role" =>
        IF last.target_role \in DOMAIN pane_registry
        THEN /\ last.result = Unit
             /\ Len(sent_messages) = 1
             /\ sent_messages[1].message = last.command
             /\ sent_messages[1].pane_id = pane_registry[last.target_role]
        ELSE /\ last.result = PaneNotFound(last.target_role)
             /\ sent_messages = <<>>

\* "ls -la" was written to the endpoint of a registered role.
C14_Witness ==
    /\ last.op = "execute_command_in_role"
    /\ last.target_role \in DOMAIN pane_registry
    /\ last.command = <<Lit("ls"), Ws, Lit("-la")>>
    /\ sent_messages = <<Write(last.command, pane_registry[last.target_role])>>
    /\ \E role \in DOMAIN pane_registry :
           pane_registry[role] # pane_registry[last.target_role]

(***************************************************************************)
(* Properties of the envelope predicates (SpecEnvelope)                    *)
(***************************************************************************)

\* C15: for an envelope built by new_broadcast, without target,
\* is_targeted_to is true of every title, the empty one included, and
\* is_broadcast is true.
C15_BroadcastForAll ==
    (answer.asked /\ built.by = "new_broadcast") =>
        /\ ~built.e.target_pane.some
        /\ answer.is_targeted_to
        /\ answer.is_broadcast
        /\ \A title \in AskedTitles : is_targeted_to(built.e, title)

\* A broadcast envelope was asked about the empty title.
C15_Witness ==
    /\ answer.asked
    /\ built.by = "new_broadcast"
    /\ pane_title = ""
    /\ answer.is_targeted_to
    /\ answer.is_broadcast

\* C16: for an envelope built by new_targeted with target t, the empty t
\* included, is_broadcast is false and is_targeted_to(n) is true exactly when
\* n = t; with a target that is not empty it is false of the empty title.
C16_TargetedExact ==
    (answer.asked /\ built.by = "new_targeted") =>
        /\ built.e.target_pane.some
        /\ ~answer.is_broadcast
        /\ answer.is_targeted_to <=> (pane_title = built.e.target_pane.v)
        /\ (built.e.target_pane.v # "" /\ pane_title = "") => ~answer.is_targeted_to

\* An envelope with a target that is not empty was asked about the empty
\* title.
C16_Witness ==
    /\ answer.asked
    /\ built.by = "new_targeted"
    /\ built.e.target_pane.v = "test-pane"
    /\ pane_title = ""
    /\ ~answer.is_targeted_to
    /\ ~answer.is_broadcast

(***************************************************************************)
(* Properties of the file store (SpecFs)                                   *)
(***************************************************************************)

\* An atomic write has returned; the caller may have gone on since.
WriteReturned ==
    /\ fs_call.op = "write_file_atomic"
    /\ fs_pc \in {"returned", "idle"}

\* C17: after a successful atomic_write(path, content) a read of the path
\* gives exactly content, also over a longer or shorter file and for the
\* empty content, and no temporary file is left beside the file; so after
\* every write of a sequence of writes.
C17_WriteThenRead ==
    (WriteReturned /\ fs_result.result.ok) =>
        /\ read_to_string(files, fs_call.path) = Read(fs_call.content)
        /\ fs_call.temp_path # fs_call.path => fs_call.temp_path \notin DOMAIN files

\* A longer file was overwritten with a shorter content on the second
\* attempt, after an attempt that had left its temporary file behind.
C17_Witness ==
    /\ WriteReturned
    /\ fs_result.result.ok
    /\ fs_call.found = Present(<<"y", "z">>)
    /\ fs_call.content = <<"x">>
    /\ fs_call.temp_path # fs_call.path
    /\ attempt = 1
    /\ files[fs_call.path] = <<"x">>

\* An atomic write is under way: entered and not yet returned.
WriteInProgress ==
    /\ fs_call.op = "write_file_atomic"
    /\ fs_pc \in {"loop", "create", "write", "sync", "rename"}

\* What a reader of the final path may see during a write: what was there
\* when the write began, or the whole new content.
OldOrNew == {fs_call.found, Present(fs_call.content)}

\* C18: at every step of an atomic_write in progress a reader of the final
\* path sees the whole previous content (or no file) or the whole new
\* content, never a part.
C18_NoPartialFinal ==
    (WriteInProgress \/ WriteReturned) => At(files, fs_call.path) \in OldOrNew

\* C18 for the paths whose temporary path is another path: there the reader
\* sees the old or the new content at every step, and only the rename changes
\* what is at the final path.
C18_OtherPaths ==
    /\ []((fs_call.op = "write_file_atomic" /\ fs_call.temp_path # fs_call.path)
            => At(files, fs_call.path) \in OldOrNew)
    /\ [][(fs_call.op = "write_file_atomic" /\ fs_call.temp_path # fs_call.path
             /\ fs_pc # "idle" /\ At(files', fs_call.path) # At(files, fs_call.path))
            => fs_pc = "rename"]_vars

\* C19: when atomic_write returns an error, whichever it is and at whichever
\* step of whichever attempt it arose, the final path holds what it held
\* before the call, or is still absent.
C19_AllOrNothing ==
    (WriteReturned /\ ~fs_result.result.ok) => At(files, fs_call.path) = fs_call.found

\* C19 for the paths whose temporary path is another path.
C19_OtherPaths ==
    (WriteReturned /\ ~fs_result.result.ok /\ fs_call.temp_path # fs_call.path)
        => At(files, fs_call.path) = fs_call.found

\* The errors with_retry tries again.
Transient == {ConcurrentAccess, Io("Interrupted")}

\* with_retry returns result at once: no attempt counted, no sleep, no
\* further invocation.
ReturnsAtOnce(result) ==
    /\ fs_pc' = "returned"
    /\ fs_result' = [returned |-> TRUE, result |-> result]
    /\ attempt' = attempt
    /\ slept' = slept
    /\ invocations' = invocations

\* C20: in the retry wrapper a failure that is not transient ends the call
\* with that error, without sleep and without another attempt, whatever
\* number of attempts is left: PermissionDenied, an Io error other than
\* Interrupted, and a Timeout the operation itself returns.  Only
\* ConcurrentAccess and the Interrupted Io error are tried again.  A call
\* whose first attempt fails so has invoked the operation exactly once.
C20_TerminalAtOnce ==
    /\ [][\A time \in OperationTimes :
            /\ \A result \in OperationErrors :
                   Operation(result, time) =>
                       IF result \in Transient /\ attempt < MAX_RETRIES
                       THEN fs_pc' = "loop" /\ attempt' = attempt + 1
                       ELSE ReturnsAtOnce(result)
            /\ \A kind \in IoErrorKinds :
                   StepFails(kind, time) =>
                       IF From(kind) \in Transient /\ attempt < MAX_RETRIES
                       THEN fs_pc' = "loop" /\ attempt' = attempt + 1
                       ELSE ReturnsAtOnce(From(kind))]_vars
    /\ []((fs_pc = "returned" /\ attempt = 0 /\ ~fs_result.result.ok)
            => (invocations <= 1 /\ slept = <<>>))

\* After one transient failure the operation is denied permission: the call
\* ends there, with two attempts left.
C20_Witness ==
    /\ fs_pc = "returned"
    /\ fs_call.op = "operation"
    /\ fs_result.result = PermissionDenied
    /\ attempt = 1
    /\ invocations = 2
    /\ slept = <<RETRY_DELAY>>

(***************************************************************************)
(* Properties of the retry wrapper (SpecFs)                                *)
(***************************************************************************)

\* The operation is being invoked.
Invoking == fs_pc \in {"create", "write", "sync", "rename", "read", "operation",
                       "open", "append", "append_sync"}

\* An invocation ends with a transient failure of the last attempt allowed:
\* with_retry returns that failure.
LastAttemptFails(result) ==
    attempt = MAX_RETRIES =>
        /\ fs_pc' = "returned"
        /\ fs_result' = [returned |-> TRUE, result |-> result]
        /\ invocations' = MAX_RETRIES + 1
        /\ invocations = MAX_RETRIES + 1

\* An invocation ends with a transient failure while attempts are left: the
\* one counter of attempts goes up by one, whichever kind the failure is of.
EarlierAttemptFails ==
    attempt < MAX_RETRIES =>
        /\ fs_pc' = "loop"
        /\ attempt' = attempt + 1
        /\ invocations' = invocations

\* C21: when every attempt fails transiently within the time budget, the
\* retry wrapper invokes the operation exactly MAX_RETRIES + 1 = 4 times and
\* returns the last transient error (ConcurrentAccess or the Interrupted Io
\* error), not Timeout.  No call invokes the operation more than
\* MAX_RETRIES + 1 times, and the would-block and the interrupted failures
\* are counted by the one attempt counter.
C21_AttemptCap ==
    /\ [](/\ invocations <= MAX_RETRIES + 1
          /\ attempt <= MAX_RETRIES
          /\ Invoking => invocations = attempt + 1
          /\ fs_pc = "loop" => invocations = attempt
          /\ (fs_pc = "returned" /\ fs_result.result \in Transient) =>
                 /\ invocations = MAX_RETRIES + 1
                 /\ attempt = MAX_RETRIES
          /\ (fs_pc = "returned" /\ fs_call.op = "operation"
                /\ elapsed <= OPERATION_TIMEOUT) => invocations = attempt + 1)
    /\ [][\A time \in OperationTimes :
            /\ \A result \in Transient :
                   Operation(result, time) =>
                       LastAttemptFails(result) /\ EarlierAttemptFails
            /\ \A kind \in {"WouldBlock", "Interrupted"} :
                   StepFails(kind, time) =>
                       LastAttemptFails(From(kind)) /\ EarlierAttemptFails]_vars

\* Four invocations have failed, the last one interrupted, within the
\* budget: the call ends with the Interrupted error.
C21_Witness ==
    /\ fs_pc = "returned"
    /\ fs_call.op = "operation"
    /\ fs_result.result = Io("Interrupted")
    /\ invocations = MAX_RETRIES + 1
    /\ attempt = MAX_RETRIES
    /\ elapsed <= OPERATION_TIMEOUT
    /\ elapsed > 2000

(***************************************************************************)
(* Properties of the store's operations (SpecStore)                        *)
(***************************************************************************)

\* The invocation ends well at whichever attempt it is: with_retry returns
\* its value, and the operation has been invoked once more than it had
\* failed.
ReturnsSuccess(value) ==
    /\ fs_pc' = "returned"
    /\ fs_result' = [returned |-> TRUE, result |-> value]
    /\ invocations' = attempt + 1
    /\ attempt' = attempt
    /\ slept' = slept

\* C22: when the operation fails transiently k times, k <= MAX_RETRIES, and
\* then succeeds, the retry wrapper returns that success after exactly k + 1
\* invocations: so for write_file_atomic, append_to_file and read_file_safe
\* and for closures, after would-block and after interrupted failures.
C22_SuccessAfterRetries ==
    /\ [][\A time \in StoreTimes :
            /\ Rename(time) => ReturnsSuccess(Unit)
            /\ AppendSync(time) => ReturnsSuccess(Unit)
            /\ Operation(Unit, time) => ReturnsSuccess(Unit)
            /\ (ReadToString(time) /\ fs_call.path \in DOMAIN files) =>
                   ReturnsSuccess(Read(files[fs_call.path]))]_vars
    /\ []((fs_pc = "returned" /\ fs_result.result.ok /\ fs_call.op # "ensure_file_exists") =>
            /\ attempt <= MAX_RETRIES
            /\ invocations = attempt + 1
            /\ Len(slept) = attempt)

\* An append has failed twice and succeeded at its third attempt.
C22_Witness ==
    /\ fs_pc = "returned"
    /\ fs_call.op = "append_to_file"
    /\ fs_result.result = Unit
    /\ attempt = 2
    /\ invocations = 3
    /\ Len(slept) = 2

\* RETRY_DELAY * n for the n-th failure, n = 1, 2, ...
LinearBackoff(n) == [i \in 1..n |-> RETRY_DELAY * i]

RECURSIVE Sum(_)
Sum(delays) == IF delays = <<>> THEN 0 ELSE Head(delays) + Sum(Tail(delays))

C24_BudgetTimeout ==
    /\ [](Invoking => elapsed <= OPERATION_TIMEOUT)
    /\ [][fs_pc = "loop" =>
            IF elapsed > OPERATION_TIMEOUT
            THEN /\ fs_pc' = "returned"
                 /\ fs_result' = [returned |-> TRUE, result |-> Timeout]
                 /\ invocations' = invocations
                 /\ files' = files
            ELSE /\ fs_pc' \in {"create", "read", "operation", "open"}
                 /\ invocations' = invocations + 1]_vars

\* The budget ran out during the second sleep: the call, which had two
\* attempts left, has returned Timeout.
C24_Witness ==
    /\ fs_pc = "returned"
    /\ fs_result.result = Timeout
    /\ attempt = 2
    /\ invocations = 2
    /\ elapsed > OPERATION_TIMEOUT
    /\ elapsed - slept[Len(slept)] <= OPERATION_TIMEOUT

\* The last call was ensure_file_exists; it may have returned since.
EnsureCalled == fs_call.op = "ensure_file_exists"

EnsureReturned == EnsureCalled /\ fs_pc \in {"returned", "idle"}

\* C25: ensure_file_exists(path) does nothing when a file is at the path: it
\* returns Ok at once and the content stays, so it never truncates.
\* Otherwise it runs write_file_atomic(path, ""): when it returns Ok the
\* empty file is there, and nothing is at the path before the rename.  Called
\* again after it has returned Ok, it changes no file.
C25_EnsureExists ==
    /\ []((EnsureCalled /\ fs_call.found.exists) =>
            /\ fs_pc \in {"returned", "idle"}
            /\ fs_result.result = Unit
            /\ invocations = 0
            /\ At(files, fs_call.path) = fs_call.found)
    /\ []((EnsureCalled /\ ~fs_call.found.exists) =>
            /\ fs_call.content = <<>>
            /\ fs_call.temp_path = with_extension(fs_call.path, "tmp")
            /\ (EnsureReturned /\ fs_result.result.ok) =>
                   /\ At(files, fs_call.path) = Present(<<>>)
                   /\ invocations >= 1
            /\ (fs_call.temp_path # fs_call.path
                  /\ ~(EnsureReturned /\ fs_result.result.ok)) =>
                   At(files, fs_call.path) = Absent)
    /\ [][\A path \in StorePaths :
            (/\ EnsureReturned
             /\ fs_result.result.ok
             /\ fs_call.path = path
             /\ EnsureFileExists(path)) =>
                /\ files' = files
                /\ fs_pc' = "returned"
                /\ fs_result' = [returned |-> TRUE, result |-> Unit]]_vars

\* ensure_file_exists has been called on a log that two appends had written
\* to: it has returned Ok and what they wrote is there.
C25_Witness ==
    /\ EnsureCalled
    /\ fs_pc = "returned"
    /\ fs_call.found.exists
    /\ fs_call.found.content = <<"y", "z", "x">>
    /\ fs_result.result = Unit
    /\ files[fs_call.path] = fs_call.found.content

\* An append has returned; the caller may have gone on since.
AppendReturned ==
    /\ fs_call.op \in {"append_to_file", "log_to_file"}
    /\ fs_pc \in {"returned", "idle"}

IsPrefix(short, long) ==
    /\ Len(short) <= Len(long)
    /\ SubSeq(long, 1, Len(short)) = short

IsSuffix(short, long) ==
    /\ Len(short) <= Len(long)
    /\ SubSeq(long, Len(long) - Len(short) + 1, Len(long)) = short

\* C26: append_to_file(path, content) creates the file when it is absent and
\* leaves what was there as a prefix; after an append that returns Ok the
\* file holds what it held before followed by content, once and nothing
\* else, so that appends c1 .. cn to a file holding c0 leave c0 c1 .. cn,
\* and the append of the empty content changes nothing.
C26_AppendExact ==
    (AppendReturned /\ fs_call.op = "append_to_file" /\ fs_result.result.ok) =>
        At(files, fs_call.path) = Present(Before(fs_call.found) \o fs_call.content)

\* C26 for the appends that return Ok at their first attempt; and for every
\* append, at every step, what was there is a prefix of the file, and the
\* content is its end when Ok is returned.
C26_FirstAttempt ==
    /\ (AppendReturned /\ fs_result.result.ok /\ attempt = 0) =>
           At(files, fs_call.path) = Present(Before(fs_call.found) \o fs_call.content)
    /\ (fs_call.op \in {"append_to_file", "log_to_file"}
          /\ fs_call.path \in DOMAIN files) =>
           IsPrefix(Before(fs_call.found), files[fs_call.path])
    /\ (AppendReturned /\ fs_result.result.ok) =>
           IsSuffix(fs_call.content, files[fs_call.path])

(***************************************************************************)
(* Properties of the log (SpecLog)                                         *)
(***************************************************************************)

\* content.lines().count() of a content whose lines all end with a newline
RECURSIVE Lines(_)
Lines(content) ==
    IF content = <<>> THEN 0
    ELSE (IF Head(content) = "\n" THEN 1 ELSE 0) + Lines(Tail(content))

LogReturned ==
    /\ fs_call.op = "log_to_file"
    /\ fs_pc \in {"returned", "idle"}

\* C28: log_to_file(path, message) appends exactly one entry
\* "[<unix_seconds>] <message>\n", with the clock's value at the call: after
\* a call that returns Ok the log holds one line more than before, the new
\* line last, so that n calls leave n lines in the order of the calls, with
\* timestamps that do not decrease when the clock does not.
C28_OneEntry ==
    (LogReturned /\ fs_result.result.ok) =>
        /\ files[fs_call.path] =
               Before(fs_call.found) \o LogEntry(fs_call.timestamp, fs_call.text)
        /\ Lines(files[fs_call.path]) = Lines(Before(fs_call.found)) + 1

\* C28 for the calls that return Ok at their first attempt; and for every
\* call that returns Ok, the entry is the end of the log and the lines
\* before it are kept.
C28_FirstAttempt ==
    /\ (LogReturned /\ fs_result.result.ok /\ attempt = 0) =>
           /\ files[fs_call.path] =
                  Before(fs_call.found) \o LogEntry(fs_call.timestamp, fs_call.text)
           /\ Lines(files[fs_call.path]) = Lines(Before(fs_call.found)) + 1
    /\ (LogReturned /\ fs_result.result.ok) =>
           /\ IsSuffix(LogEntry(fs_call.timestamp, fs_call.text), files[fs_call.path])
           /\ IsPrefix(Before(fs_call.found), files[fs_call.path])
           /\ Lines(files[fs_call.path]) >= Lines(Before(fs_call.found)) + 1

(***************************************************************************)
(* Properties of the appending threads (SpecWriters)                       *)
(***************************************************************************)

\* The messages whose append has returned
Appended == {<<t, i>> \in ThreadIds \X (0 .. AppendsEach - 1) : i < writers[t].i}

\* content.contains(expected_message): the places of the line in the file
Places(content, line) == {k \in DOMAIN content : content[k] = line}

AllJoined == \A t \in ThreadIds : writers[t].i = AppendsEach

Artifacts(d) == <<d.todo_list, d.plan, d.review,
                  d.overseer_log, d.commander_log, d.coordinator_log>>

AllPaths(d) == {d.task_directory, d.logs_dir} \cup {Artifacts(d)[k] : k \in 1..6}

\* C29: the paths are a function of the task id alone, for every id, 0 and
\* u32::MAX too: the task directory is task-<id> under the root; todo-list.md,
\* plan.md, review.md and the directory logs lie in it; overseer.log,
\* commander.log and coordinator.log lie in logs; the six files of one task
\* are six paths; and no path of one task is a path of a task with another
\* id.
C29_PathDerivation ==
    /\ \A k \in DOMAIN derived :
           LET d == derived[k] IN
           /\ parent(d.task_directory) = ZzzRoot
           /\ file_name(d.task_directory) = "task-" \o to_string_u32(d.task)
           /\ parent(d.todo_list) = d.task_directory
           /\ file_name(d.todo_list) = "todo-list.md"
           /\ parent(d.plan) = d.task_directory
           /\ file_name(d.plan) = "plan.md"
           /\ parent(d.review) = d.task_directory
           /\ file_name(d.review) = "review.md"
           /\ parent(d.logs_dir) = d.task_directory
           /\ file_name(d.logs_dir) = "logs"
           /\ parent(d.overseer_log) = d.logs_dir
           /\ file_name(d.overseer_log) = "overseer.log"
           /\ parent(d.commander_log) = d.logs_dir
           /\ file_name(d.commander_log) = "commander.log"
           /\ parent(d.coordinator_log) = d.logs_dir
           /\ file_name(d.coordinator_log) = "coordinator.log"
           /\ \A i, j \in 1..6 : Artifacts(d)[i] = Artifacts(d)[j] => i = j
    /\ Len(derived) = 2 =>
           IF derived[1].task = derived[2].task
           THEN derived[1] = derived[2]
           ELSE AllPaths(derived[1]) \cap AllPaths(derived[2]) = {}

\* The paths of task u32::MAX have been derived after those of task 0.
C29_Witness ==
    /\ Len(derived) = 2
    /\ derived[1].task = U32_MAX
    /\ derived[1].task_directory = <<"/", "host", ".zzz", "task-4294967295">>
    /\ derived[1].coordinator_log =
           <<"/", "host", ".zzz", "task-4294967295", "logs", "coordinator.log">>
    /\ derived[2].task = U32(0, 0)
    /\ derived[2].plan = <<"/", "host", ".zzz", "task-0", "plan.md">>

(***************************************************************************)
(* Properties of the plugin's routing methods (SpecState)                  *)
(***************************************************************************)

\* What MessageRouter::route_message_to_role can be declared to return
RouterResults ==
    {Unit, SerializationError} \cup {PaneNotFound(role) : role \in PaneRole}

\* C30: the routing methods of State return what the router returned, errors
\* too: State::route_message_to_role returns exactly the router's result (Ok,
\* PaneNotFound with the same role, the serialization error), and
\* State::route_message_to_roles and State::broadcast_to_all_roles return the
\* router's list of results unchanged; so whether the write of the line to
\* the coordinator log succeeds or fails.
C30_RouterErrorsReturned ==
    /\ \A routed \in RouterResults, message \in RouterMessages, role \in PaneRole :
           state_route_message_to_role(routed, message, role).returned = routed
    /\ state_last.op = "route_message_to_role" =>
           LET done == route_message_to_role(state_last.registry, state_last.message,
                                             state_last.target_role)
           IN  /\ state_last.registry = pane_registry
               /\ state_last.routed = done.result
               /\ state_last.returned = done.result
               /\ sent_messages = done.writes
    /\ state_last.op = "route_message_to_roles" =>
           LET done == route_message_to_roles(state_last.registry, state_last.message,
                                              state_last.target_roles)
           IN  /\ state_last.returned_list = done.result
               /\ Len(state_last.returned_list) = Len(state_last.target_roles)
               /\ sent_messages = done.writes
    /\ state_last.op = "broadcast_to_all_roles" =>
           LET done == broadcast_to_all(state_last.registry, state_last.message,
                                        state_last.target_roles)
           IN  /\ state_last.returned_list = done.result
               /\ {state_last.returned_list[k].role : k \in DOMAIN state_last.returned_list}
                      = DOMAIN state_last.registry
               /\ sent_messages = done.writes
    /\ state_last # NoStateCall =>
           mirrored = Kept(state_last.lines, state_last.written)

\* A message was routed to three roles, the second of which has no pane; the
\* writes of the first and the third line to the log failed; the list
\* returned holds the error in its place.
C30_Witness ==
    /\ state_last.op = "route_message_to_roles"
    /\ state_last.target_roles = <<"Overseer", "TaskList", "Commander">>
    /\ state_last.returned_list[1].result = Unit
    /\ state_last.returned_list[2] = [role |-> "TaskList", result |-> PaneNotFound("TaskList")]
    /\ state_last.returned_list[3].result = Unit
    /\ state_last.written = <<FALSE, TRUE, FALSE>>
    /\ Len(mirrored) = 1
    /\ mirrored[1].text = "Failed to route message to"

(***************************************************************************)
(* Properties of the retry wrapper, continued (SpecFs)                     *)
(***************************************************************************)

\* The invocation ends with result after time ms and with_retry returns it,
\* whatever time has passed by then.
ReturnsWhatever(result, time) ==
    /\ fs_pc' = "returned"
    /\ fs_result' = [returned |-> TRUE, result |-> result]
    /\ elapsed' = elapsed + time
    /\ invocations' = invocations

\* C32: the time budget is checked before an attempt only.  The first
\* attempt is always made; Timeout is returned at the head of the loop,
\* without invoking the operation, when more than the budget has passed
\* there; an invocation and the sleep after it are never cut short; and an
\* attempt that began within the budget and succeeds or fails terminally
\* has its result returned even when the budget has run out meanwhile.
C32_CheckBeforeAttempt ==
    /\ []((fs_pc = "loop" /\ invocations = 0) => elapsed = 0)
    /\ [][/\ (fs_pc = "loop" /\ invocations = 0) =>
                 (fs_pc' \in {"create", "read", "operation", "open"} /\ invocations' = 1)
          /\ (fs_pc = "loop" /\ fs_pc' = "returned") =>
                 /\ elapsed > OPERATION_TIMEOUT
                 /\ fs_result' = [returned |-> TRUE, result |-> Timeout]
                 /\ invocations' = invocations
                 /\ files' = files
          /\ (Invoking /\ fs_pc' = "returned" /\ fs_call.op # "operation") =>
                 fs_result'.result # Timeout
          /\ (Invoking /\ ~Invoking') =>
                 /\ fs_pc' \in {"loop", "returned"}
                 /\ fs_pc' = "loop" =>
                        /\ slept' = Append(slept, RETRY_DELAY * attempt')
                        /\ elapsed' >= elapsed + RETRY_DELAY * attempt'
          /\ \A time \in OperationTimes :
                 /\ Rename(time) => ReturnsWhatever(Unit, time)
                 /\ ReadToString(time) =>
                        ReturnsWhatever(read_to_string(files, fs_call.path), time)
                 /\ \A result \in ({Unit} \cup OperationErrors) \ Transient :
                        Operation(result, time) => ReturnsWhatever(result, time)
                 /\ \A kind \in {"PermissionDenied", "NotFound"} :
                        StepFails(kind, time) => ReturnsWhatever(From(kind), time)]_vars

\* The first attempt of an atomic write failed on a busy file after 2.6 s;
\* the second began within the budget, took 2.6 s too, and its success has
\* been returned after more than 5 s.
C32_Witness ==
    /\ fs_pc = "returned"
    /\ fs_call.op = "write_file_atomic"
    /\ fs_result.result = Unit
    /\ invocations = 2
    /\ elapsed > OPERATION_TIMEOUT

\* The call is under way: with_retry has been entered and has not returned.
UnderWay == fs_pc = "loop" \/ Invoking

\* C33: every call of a wrapped operation of the store (write_file_atomic,
\* read_file_safe, append_to_file) ends, given that every attempt returns:
\* whatever the attempts end with, with_retry returns after at most
\* MAX_RETRIES + 1 invocations and at most MAX_RETRIES sleeps, with a
\* success, a terminal error, the transient error of the last attempt, or
\* Timeout.
C33_Terminates ==
    /\ UnderWay ~> fs_pc = "returned"
    /\ [](/\ invocations <= MAX_RETRIES + 1
          /\ Len(slept) <= MAX_RETRIES
          /\ fs_pc = "returned" =>
                 /\ fs_result.returned
                 /\ \/ fs_result.result.ok
                    \/ fs_result.result = Timeout /\ elapsed > OPERATION_TIMEOUT
                    \/ fs_result.result \in Transient /\ invocations = MAX_RETRIES + 1
                    \/ ~fs_result.result.ok /\ fs_result.result \notin Transient)

\* A read was interrupted or found the file busy at each of its four
\* attempts; the call has slept three times and returned the last failure.
C33_Witness ==
    /\ fs_pc = "returned"
    /\ fs_call.op = "read_file_safe"
    /\ fs_result.result \in Transient
    /\ invocations = MAX_RETRIES + 1
    /\ Len(slept) = MAX_RETRIES

(***************************************************************************)
(* Properties of the temporary path (SpecFs)                               *)
(***************************************************************************)

\* Final paths: the paths written here and a file name without extension.
FinalPaths == Paths \cup {PathOf("Makefile", "")}

\* The temporary path is beside the final path and is another path.
IsSibling(temp_path, path) == temp_path.stem = path.stem /\ temp_path # path

\* C34: the temporary path write_file_atomic writes to is a sibling that
\* differs from the final path, for every final path, those with the
\* extension "tmp" and those without extension included; so the final file
\* is never created anew, truncated or written in place: creating and
\* filling the temporary file leave what is at the final path as it was.
C34_TempIsSibling ==
    [][(fs_call.op = "write_file_atomic" /\ fs_pc \in {"create", "write", "sync"})
        => /\ \A path \in FinalPaths : IsSibling(with_extension(path, "tmp"), path)
           /\ IsSibling(fs_call.temp_path, fs_call.path)
           /\ At(files', fs_call.path) = At(files, fs_call.path)]_vars

\* C34 for the final paths whose extension is not "tmp", those without
\* extension included.
C34_OtherExtensions ==
    /\ \A path \in FinalPaths :
           path.extension # "tmp" => IsSibling(with_extension(path, "tmp"), path)
    /\ []((fs_call.op = "write_file_atomic" /\ fs_call.path.extension # "tmp") =>
             IsSibling(fs_call.temp_path, fs_call.path))
    /\ [][(fs_call.op = "write_file_atomic" /\ fs_call.path.extension # "tmp"
             /\ fs_pc \in {"create", "write", "sync"})
            => At(files', fs_call.path) = At(files, fs_call.path)]_vars

(***************************************************************************)
(* Properties of concurrent atomic writes (SpecAtomic)                     *)
(***************************************************************************)

\* What was at the final path before any writer began
Prior(path) == IF path = PathOf("plan", "md") THEN Present(PriorContent) ELSE Absent

\* The whole contents the writers of a final path write to it
Written(path) ==
    {Present(atomics[w].content) :
        w \in {v \in AtomicIds : atomics[v].at # "idle" /\ atomics[v].path = path}}

\* Writer w's rename ends well.
Renames(w) ==
    /\ atomics[w].at = "rename"
    /\ atomics'[w].at = "returned"
    /\ atomics'[w].result.ok

\* C35: when calls of write_file_atomic on one final path, or on final paths
\* of one directory that differ in their extension only, run side by side
\* with their create, write, sync and rename steps interleaved in any way,
\* every call that returns Ok has its own whole content at its final path
\* when its rename is done, and every final path holds at all times what it
\* held before or the whole content of one write, never a truncated file
\* and never bytes of two writers.
C35_ConcurrentAtomicWrites ==
    /\ [](\A path \in AtomicPaths :
            Named(directory, inodes, path) \in {Prior(path)} \cup Written(path))
    /\ [][\A w \in AtomicIds :
            Renames(w) =>
                Named(directory', inodes', atomics[w].path) = Present(atomics[w].content)]_vars

\* The writers whose temporary path is nobody else's
Alone(w) ==
    \A v \in AtomicIds \ {w} :
        atomics[v].at # "idle" => atomics[v].temp_path # atomics[w].temp_path

\* C35 for writers of final paths with different stems, and for a writer
\* that runs alone: their temporary files are their own.
C35_OwnTemporary ==
    /\ [](\A w \in AtomicIds :
            (atomics[w].at # "idle" /\ \A v \in AtomicIds : atomics[v].at # "idle" => Alone(v)) =>
                Named(directory, inodes, atomics[w].path)
                    \in {Prior(atomics[w].path)} \cup Written(atomics[w].path))
    /\ [][\A w \in AtomicIds :
            (Renames(w) /\ Alone(w) /\ \A v \in AtomicIds : atomics'[v].at # "idle" => Alone(v)') =>
                Named(directory', inodes', atomics[w].path) = Present(atomics[w].content)]_vars

(***************************************************************************)
(* Properties of retried appends (SpecStore)                               *)
(***************************************************************************)

\* What the file holds after what it held when the append was called
Added(fs) ==
    SubSeq(fs[fs_call.path], Len(Before(fs_call.found)) + 1, Len(fs[fs_call.path]))

\* C36: a successful append_to_file(path, content) extends the file by one
\* copy of content exactly, also when earlier attempts of the call failed
\* transiently, at the open, at the write or at the sync after the bytes
\* were written, and were tried again: the attempts before leave no second
\* and no partial copy of content in the file.
C36_RetriedAppendOnce ==
    [][\A time \in StoreTimes :
          (AppendSync(time) /\ fs_call.op = "append_to_file" /\ attempt > 0) =>
              /\ fs_result'.result = Unit
              /\ Added(files') = fs_call.content]_vars

\* C36 for the attempts that fail at the open: they leave the file as it
\* was, and while nothing but the open has failed the file holds what it
\* held before and what the attempt under way has written.
C36_FailedOpen ==
    [][(fs_call.op = "append_to_file" /\ fs_pc = "open" /\ fs_pc' \in {"loop", "returned"})
          => files' = files]_vars

(***************************************************************************)
(* Properties of the registry (SpecRegistry)                               *)
(***************************************************************************)

DeliveryOps ==
    {"route_message_to_role", "route_message_to_roles", "broadcast_to_all",
     "execute_command_in_role"}

\* C37: route_message_to_role, route_message_to_roles, broadcast_to_all and
\* execute_command_in_role never change the registry, whether they succeed
\* or fail: after each of them get_pane_id answers for every role what it
\* answered before; only register_pane and discover_panes_with_manifest
\* change which pane a role has.
C37_DeliveryKeepsRegistry ==
    [][/\ (last = NoCall /\ last'.op \in DeliveryOps) =>
             /\ pane_registry' = pane_registry
             /\ \A role \in PaneRole :
                    get_pane_id(pane_registry', role) = get_pane_id(pane_registry, role)
       /\ (\E role \in PaneRole :
              get_pane_id(pane_registry', role) # get_pane_id(pane_registry, role)) =>
             last'.op \in {"register_pane", "discover_panes_with_manifest"}]_vars

\* A message was routed to two roles, one with a pane and one without: one
\* delivery succeeded and one failed, and both roles are as they were.
C37_Witness ==
    /\ last.op = "route_message_to_roles"
    /\ Len(last.results) = 2
    /\ last.results[1].result.ok
    /\ ~last.results[2].result.ok
    /\ last.results[1].role \in DOMAIN pane_registry
    /\ last.results[2].role \notin DOMAIN pane_registry

(***************************************************************************)
(* Properties of the pipe (SpecPipe)                                       *)
(***************************************************************************)

\* C31: send_pipe_message(envelope) makes one pipe_message_to_plugin call,
\* on the channel "coordination", and no pane write, for targeted and for
\* broadcast envelopes and whatever the registry holds; the payload parses
\* back to the same envelope, so that the timestamp delivered is the one
\* the envelope got when it was built and not the time of sending, and the
\* same envelope sent twice gives the same payload twice.
C31_SendPipeMessage ==
    /\ [][\A sent_at \in Timestamps :
            SendPipeMessage(sent_at) =>
                /\ Len(piped_messages') = Len(piped_messages) + 1
                /\ piped_messages'[Len(piped_messages')].target = "coordination"
                /\ SubSeq(piped_messages', 1, Len(piped_messages)) = piped_messages
                /\ sent_messages' = sent_messages
                /\ pane_registry' = pane_registry
                /\ plugin_last'.result = Unit
                /\ LET text == piped_messages'[Len(piped_messages')].message IN
                   /\ parse_incoming_message(text) = ParsedEnvelope(built.e)
                   /\ from_str_envelope(text).v.timestamp = built.e.timestamp]_vars
    /\ [](\A i, j \in DOMAIN piped_messages :
            (plugin_last.event = "send_pipe_message") =>
                /\ piped_messages[i] = piped_messages[j]
                /\ piped_messages[i].message = to_string_envelope(built.e))

\* A targeted envelope built at time 0 has been sent twice, later, with a
\* pane registered: two equal payloads are on the channel.
C31_Witness ==
    /\ plugin_last.event = "send_pipe_message"
    /\ Len(piped_messages) = 2
    /\ built.e.target_pane = Some("Overseer")
    /\ built.e.timestamp = 0
    /\ plugin_last.sent_at = 1700000000
    /\ "Overseer" \in DOMAIN pane_registry
    /\ sent_messages = <<>>

\* The StartPlanning message of the task the plugin is configured with
StartPlanningOf(st) ==
    [variant |-> "StartPlanning", task_id |-> st.task_id,
     task_description |-> st.task_description]

\* The pane writes and the piped payloads that carry a StartPlanning message
StartPlanningWrites(writes) ==
    {i \in DOMAIN writes :
        LET message == from_str_message(writes[i].message) IN
        message.ok /\ message.v.variant = "StartPlanning"}

StartPlanningPipes(pipes) ==
    {i \in DOMAIN pipes :
        LET incoming == parse_incoming_message(pipes[i].message) IN
        /\ incoming.ok
        /\ incoming.kind = "Envelope"
        /\ incoming.envelope.coordination_message.variant = "StartPlanning"}

\* A step that sends a StartPlanning message, by a pane write or on the pipe
StartPlanningSent ==
    \/ StartPlanningWrites(sent_messages') # {}
       /\ sent_messages' # sent_messages
    \/ StartPlanningPipes(piped_messages') # {}
       /\ piped_messages' # piped_messages

\* C38: a StartPlanning message is sent only by the handling of a PaneUpdate
\* event that finds the permissions flag set and whose discovery leaves at
\* least one role registered; the flag is set by the handling of a
\* PermissionRequestResult event only, so the PaneUpdate was preceded by
\* one, and once set it is never reset.  Hence nothing is sent before the
\* first permission result, on a manifest that matches no role, on
\* TabUpdate or on the permission events.
C38_StartPlanningOnlyWhenDue ==
    /\ [][StartPlanningSent =>
            /\ plugin_last = NoHandler
            /\ plugin_last'.event = "PaneUpdate"
            /\ state.permissions_granted
            /\ DOMAIN pane_registry' # {}]_vars
    /\ [][(plugin_last'.event = "PaneUpdate" /\ plugin_last = NoHandler
           /\ (~state.permissions_granted \/ DOMAIN pane_registry' = {})) =>
            /\ sent_messages' = sent_messages
            /\ piped_messages' = piped_messages]_vars
    /\ [][(~state.permissions_granted /\ state'.permissions_granted) =>
            plugin_last'.event = "PermissionRequestResult"]_vars
    /\ [][state.permissions_granted => state'.permissions_granted]_vars

\* A layout with an Overseer pane has been handled after a permission
\* result, and the StartPlanning message was written to a pane.
C38_Witness ==
    /\ plugin_last.event = "PaneUpdate"
    /\ state.permissions_granted
    /\ "Overseer" \in DOMAIN pane_registry
    /\ StartPlanningWrites(sent_messages) # {}
    /\ piped_messages = <<>>

\* The permissions are not granted yet, a layout with an Overseer pane has
\* been handled, the role is registered and nothing was sent.
C38_NothingBeforePermissions ==
    /\ plugin_last.event = "PaneUpdate"
    /\ ~state.permissions_granted
    /\ "Overseer" \in DOMAIN pane_registry
    /\ sent_messages = <<>>
    /\ piped_messages = <<>>

\* C39: the handling of a PaneUpdate event with the permissions granted and
\* at least one role discovered delivers the StartPlanning message once,
\* through one transport: by one write to the pane registered as Overseer
\* when there is one, and otherwise by one envelope targeted to "Overseer" on
\* the "coordination" channel; never both, never neither.  The message holds
\* the task_id and the task_description the plugin is configured with.
C39_OneDelivery ==
    [][(plugin_last = NoHandler /\ plugin_last'.event = "PaneUpdate"
        /\ state.permissions_granted /\ DOMAIN pane_registry' # {}) =>
          IF get_pane_id(pane_registry', "Overseer").some
          THEN /\ piped_messages' = piped_messages
               /\ Len(sent_messages') = Len(sent_messages) + 1
               /\ SubSeq(sent_messages', 1, Len(sent_messages)) = sent_messages
               /\ LET written == sent_messages'[Len(sent_messages')] IN
                  /\ written.pane_id = get_pane_id(pane_registry', "Overseer").pane_id
                  /\ from_str_message(written.message).ok
                  /\ from_str_message(written.message).v = StartPlanningOf(state)
          ELSE /\ sent_messages' = sent_messages
               /\ Len(piped_messages') = Len(piped_messages) + 1
               /\ SubSeq(piped_messages', 1, Len(piped_messages)) = piped_messages
               /\ LET piped == piped_messages'[Len(piped_messages')]
                      incoming == parse_incoming_message(piped.message)
                  IN  /\ piped.target = "coordination"
                      /\ incoming.ok
                      /\ incoming.kind = "Envelope"
                      /\ incoming.envelope.target_pane = Some("Overseer")
                      /\ incoming.envelope.coordination_message = StartPlanningOf(state)]_vars

\* Task 7 is configured, the permissions are granted, and the layout handled
\* has a Commander pane and no Overseer pane: the message went on the pipe.
C39_Witness ==
    /\ plugin_last.event = "PaneUpdate"
    /\ state.permissions_granted
    /\ state.task_id = 7
    /\ state.task_description = "Test task"
    /\ DOMAIN pane_registry = {"Commander"}
    /\ sent_messages = <<>>
    /\ Len(piped_messages) = 1

\* The message a piped text holds, in an envelope or bare
MessageOf(incoming) ==
    IF ~incoming.ok THEN None
    ELSE IF incoming.kind = "Envelope" THEN Some(incoming.envelope.coordination_message)
    ELSE Some(incoming.message)

Received(text) == MessageOf(parse_incoming_message(text))

C40_Sent ==
    /\ plugin_last.event = "send_coordination_message"
    /\ plugin_last.message
       = [variant |-> "PhaseTransition", from |-> "Initializing", to |-> "Finished"]
    /\ plugin_last.result = Unit
    /\ Len(piped_messages) = 1
    /\ state.current_phase = "Initializing"

====
